---- MODULE Spec2Model ----
(***************************************************************************)
(* State-machine model of the TerraFly task/flight scheduling code.        *)
(*                                                                         *)
(* The repository holds several schedulers that do not share state; each   *)
(* is modelled by its own group of variables and its own specification:    *)
(*                                                                         *)
(*   SpecU  task_scheduler/unified_scheduler.py   UnifiedScheduler         *)
(*   SpecF  task_scheduler/flight_scheduler.py    FlightScheduler          *)
(*   SpecD  task_scheduler/delivery_scheduler.py  DeliveryScheduler        *)
(*   SpecT  task_scheduler/task_scheduler.py      TaskScheduler            *)
(*   SpecM  task_scheduler/master_computer/*.py   MasterScheduler,         *)
(*                                                TaskManager,             *)
(*                                                VehicleManager           *)
(*                                                                         *)
(* Conventions.  Names that a module uses without importing them           *)
(* (TaskStatus in master_computer/scheduler.py, timedelta in               *)
(* task_scheduler.py) denote the definition of that name in the package.   *)
(* Calls into collaborators whose effect is outside the scheduler's own    *)
(* registries (map planner, websocket transport) are inputs of the action  *)
(* that makes the call: their result is drawn with \E.  Time is a counter  *)
(* of seconds advanced by its own action.                                  *)
(***************************************************************************)
EXTENDS Integers, Sequences, FiniteSets, TLC

(***************************************************************************)
(* Generic helpers                                                         *)
(***************************************************************************)
None == "none"

\* None in a field that otherwise holds a datetime
NoTime == -1

Abs(x) == IF x < 0 THEN -x ELSE x

Max2(a, b) == IF a >= b THEN a ELSE b

\* The range of a sequence
Range(s) == {s[i] : i \in 1..Len(s)}

\* Position of the first occurrence of e in the sequence s (0 if absent)
IndexOf(s, e) == IF e \in Range(s) THEN CHOOSE i \in 1..Len(s) : s[i] = e /\ \A j \in 1..(i-1) : s[j] # e ELSE 0

(***************************************************************************)
(* State                                                                   *)
(***************************************************************************)
VARIABLES
    now,            \* datetime.datetime.now(), in seconds
    uVehicles,      \* UnifiedScheduler.vehicles  (dict id -> Vehicle)
    uVehicleOrder,  \* insertion order of the keys of UnifiedScheduler.vehicles
    uTasks,         \* UnifiedScheduler.tasks     (dict id -> Task)
    uQueue,         \* UnifiedScheduler.task_queue (PriorityQueue of tuples)
    uCalls,         \* number of update_vehicle_status / update_task_status calls made so far
    uThreads,       \* the locals of UnifiedScheduler's scheduler thread and of the thread that reports telemetry
    uStore,         \* the file that save_state writes, and the registries that load_state builds from it
    flight_paths,   \* FlightScheduler.flight_paths (dict drone_id -> FlightPath)
    fReturn,        \* the return statement that ended the last schedule_flight call
    fCalls,         \* for every calling thread, the locals of the schedule_flight call it is in
    tVehicles,      \* TaskScheduler.vehicles (dict id -> Vehicle)
    tVehicleOrder,  \* insertion order of the keys of TaskScheduler.vehicles
    tTasks,         \* TaskScheduler.tasks (dict id -> Task)
    tTaskOrder,     \* insertion order of the keys of TaskScheduler.tasks
    tFlights,       \* TaskScheduler.flight_scheduler.flight_paths: drone_id -> status of the route
    tTicks,         \* number of iterations of TaskScheduler.run_scheduler so far
    tCalls,         \* number of TaskScheduler.update_vehicle_status calls made so far
    dPoints,        \* DeliveryScheduler.delivery_points (the ids registered so far)
    dVehicles,      \* DeliveryScheduler.vehicles (dict id -> dict)
    dVehicleOrder,  \* insertion order of the keys of DeliveryScheduler.vehicles
    dTasks,         \* DeliveryScheduler.tasks (dict id -> DeliveryTask)
    mTasks,         \* TaskManager.tasks (dict id -> Task)
    mTaskOrder,     \* insertion order of the keys of TaskManager.tasks
    mVehicles,      \* VehicleManager.vehicles (dict id -> Vehicle)
    mVehicleOrder,  \* insertion order of the keys of VehicleManager.vehicles
    mCalls,         \* number of TaskManager.update_task_status / remove_task calls made so far
    kRoads,         \* MapManager.map_layers[TRAFFIC]['roads']
    kObstacles,     \* MapManager.obstacles (the ids of the obstacles in the list)
    kRestricted,    \* MapManager.restricted_areas (the ids of the areas in the list)
    kCache,         \* MapManager.cached_paths (dict key -> path), with the obstacles and areas the path was planned against
    kReturn,        \* how the last plan_path call ended
    pTerrain,       \* MapPlanner.terrain_map (dict (lat, lon) -> elevation)
    pObstacles,     \* MapPlanner.obstacles (the ids of the obstacles in the list)
    pReturn         \* how the last plan_drone_path call ended

uvars == <<now, uVehicles, uVehicleOrder, uTasks, uQueue, uCalls>>
fvars == <<flight_paths, fReturn, fCalls>>
tvars == <<tVehicles, tVehicleOrder, tTasks, tTaskOrder, tFlights, tTicks, tCalls>>
dvars == <<dPoints, dVehicles, dVehicleOrder, dTasks>>
mvars == <<mTasks, mTaskOrder, mVehicles, mVehicleOrder, mCalls>>
kvars == <<kRoads, kObstacles, kRestricted, kCache, kReturn>>
pvars == <<pTerrain, pObstacles, pReturn>>
cvars == <<uThreads, uStore>>
vars == <<uvars, fvars, tvars, dvars, mvars, kvars, pvars, cvars>>

\* the variables of the other components, which a component's steps leave alone
notU == <<fvars, tvars, dvars, mvars, kvars, pvars, cvars>>
notF == <<uvars, tvars, dvars, mvars, kvars, pvars, cvars>>
notT == <<uvars, fvars, dvars, mvars, kvars, pvars, cvars>>
notD == <<uvars, fvars, tvars, mvars, kvars, pvars, cvars>>
notM == <<uvars, fvars, tvars, dvars, kvars, pvars, cvars>>
notK == <<uvars, fvars, tvars, dvars, mvars, pvars, cvars>>
notP == <<uvars, fvars, tvars, dvars, mvars, kvars, cvars>>
\* what the threads of UnifiedScheduler leave alone
notUC == <<fvars, tvars, dvars, mvars, kvars, pvars, uStore>>

(***************************************************************************)
(* ======================  UnifiedScheduler  ============================  *)
(***************************************************************************)
\* ---- bounds of the model ----
\* the clock takes the values 0 and MaxTime
MaxTime == 40
\* number of status-update calls (telemetry, task status) in one run
MaxCalls == 1
\* Number of seconds the second-by-second clock counts
MaxClock == 2

\* ---- program constants ----
MinBatteryLevel == 15
VehicleTimeout == 30
\* config['scheduler']['task_retry_limit']; no scheduler reads it
TaskRetryLimit == 3

\* TaskStatus of delivery_scheduler.py, in pipeline order
StatusSeq == <<"pending", "assigned", "pickup_reached", "pickup_complete", "transfer_started", "transfer_complete", "delivery_started", "completed", "failed">>
TaskStatuses == Range(StatusSeq)
Stages == <<"pickup", "transfer", "delivery">>

\* ---- inputs ----
\* Vehicles that callers register: id -> the fields fixed at construction
\* (the fleet is registered in the order of this list)
UVehicleIdSeq == <<"CAR_1", "DRONE_1", "CAR_2">>
UVehicleIds == Range(UVehicleIdSeq)
UVehicleType == [CAR_1 |-> "car", DRONE_1 |-> "drone", CAR_2 |-> "car"]
UVehicleCapacity == [CAR_1 |-> 20, DRONE_1 |-> 5, CAR_2 |-> 20]
UVehicleCaps == [CAR_1 |-> {"ground_delivery"}, DRONE_1 |-> {"air_delivery"}, CAR_2 |-> {"ground_delivery"}]
UVehicleHome == [CAR_1 |-> 0, DRONE_1 |-> 1, CAR_2 |-> 2]
\* Telemetry values (status, battery, current_payload) that updates report
Telemetry == {<<"idle", 80, 0>>, <<"busy", 80, 0>>, <<"idle", 10, 0>>, <<"idle", 15, 0>>, <<"idle", 80, 4>>}
\* Tasks that callers create: id -> the fields fixed at construction
UTaskIdSeq == <<"T1", "T2">>
UTaskIds == Range(UTaskIdSeq)
UTaskWeight == [T1 |-> 2, T2 |-> 2]
UTaskReqs == [T1 |-> {"air_delivery"}, T2 |-> {}]
UTaskPriority == [T1 |-> 1, T2 |-> 2]
UTaskStart == [T1 |-> 0, T2 |-> 2]
UTaskEnd == [T1 |-> 2, T2 |-> 0]
Deadlines == {NoTime, 0}


\* ---- Task / Vehicle records as the callers construct them ----
NewVehicle(vid) == [type |-> UVehicleType[vid], location |-> UVehicleHome[vid], battery |-> 80, status |-> "idle", payload_capacity |-> UVehicleCapacity[vid], current_payload |-> 0, last_updated |-> now, capabilities |-> UVehicleCaps[vid]]

NewTask(tid, deadline) == [priority |-> UTaskPriority[tid], start_point |-> UTaskStart[tid], end_point |-> UTaskEnd[tid], status |-> "pending", assigned_vehicles |-> <<>>, payload_weight |-> UTaskWeight[tid], special_requirements |-> UTaskReqs[tid], created_time |-> now, deadline |-> deadline]

\* ---- the priority queue ----
\* Python compares the queued tuples (-priority, time, task_id) lexicographically
TupleLess(a, b) == \/ a[1] < b[1]
                   \/ a[1] = b[1] /\ a[2] < b[2]
                   \/ a[1] = b[1] /\ a[2] = b[2] /\ IndexOf(UTaskIdSeq, a[3]) < IndexOf(UTaskIdSeq, b[3])

\* PriorityQueue.get(): the least queued tuple
QueueHead(q) == CHOOSE e \in q : \A f \in q \ {e} : TupleLess(e, f)

\* ---- _find_suitable_vehicles ----
Suitable(veh, task, vid) == /\ veh[vid].status = "idle"
                            /\ ~(veh[vid].battery < MinBatteryLevel)
                            /\ ~(veh[vid].current_payload + task.payload_weight > veh[vid].payload_capacity)
                            /\ task.special_requirements \subseteq veh[vid].capabilities

FindSuitableVehicles(veh, order, task) == SelectSeq(order, LAMBDA vid : Suitable(veh, task, vid))

\* ---- _calculate_task_cost, scaled by 3600 to stay in the integers ----
\* BaiduMapPlanner.calculate_distance over the one-dimensional positions (km)
CalculateDistance(a, b) == Abs(a - b)

CalculateTaskCost(veh, task, vid, stage, t) ==
    LET target == IF stage = "pickup" THEN task.start_point ELSE task.end_point
        distance_cost == 3600 * CalculateDistance(veh[vid].location, target)
        battery_cost == 36 * (100 - veh[vid].battery)
        time_cost == IF task.deadline # NoTime THEN Max2(0, 3600 - (task.deadline - t)) ELSE 0
    IN distance_cost + battery_cost + time_cost

\* min(suitable_vehicles, key=cost): the first element of least cost
MinByCost(veh, task, cands, stage, t) ==
    LET c(i) == CalculateTaskCost(veh, task, cands[i], stage, t)
        k == CHOOSE i \in 1..Len(cands) : /\ \A j \in 1..Len(cands) : c(i) <= c(j)
                                          /\ \A j \in 1..(i-1) : c(j) > c(i)
    IN cands[k]

\* ---- _assign_task: one pass of the loop body for one stage ----
\* st is [veh |-> vehicles, asg |-> task.assigned_vehicles]
AssignStage(st, order, task, stage, t) ==
    LET cands == FindSuitableVehicles(st.veh, order, task)
    IN IF cands = <<>> THEN st
       ELSE LET best == MinByCost(st.veh, task, cands, stage, t)
            IN [veh |-> [st.veh EXCEPT ![best].status = "busy"], asg |-> (stage :> best) @@ st.asg]

\* ---- _assign_task: the three stages in order ----
\* (each intermediate state is bound as an element of a singleton set, so
\* that it is computed once)
AssignTask(veh, order, task, t) ==
    LET S0 == {[veh |-> veh, asg |-> task.assigned_vehicles]}
        S1 == {AssignStage(s, order, task, Stages[1], t) : s \in S0}
        S2 == {AssignStage(s, order, task, Stages[2], t) : s \in S1}
        S3 == {AssignStage(s, order, task, Stages[3], t) : s \in S2}
    IN CHOOSE r \in {[veh |-> s.veh, asg |-> s.asg, ok |-> (Cardinality(DOMAIN s.asg) = Len(Stages))] : s \in S3} : TRUE

UInit == /\ now = 0
         /\ uVehicles = <<>>
         /\ uVehicleOrder = <<>>
         /\ uTasks = <<>>
         /\ uQueue = {}
         /\ uCalls = 0

\* the clock of datetime.now()
AdvanceTime == /\ now < MaxTime
               /\ now' = MaxTime
               /\ UNCHANGED <<uVehicles, uVehicleOrder, uTasks, uQueue, uCalls>>
               /\ UNCHANGED notU

\* register_vehicle
URegisterVehicle == \E vid \in UVehicleIds :
    /\ Len(uVehicleOrder) < Len(UVehicleIdSeq)
    /\ vid = UVehicleIdSeq[Len(uVehicleOrder) + 1]
    /\ vid \notin DOMAIN uVehicles
    /\ uVehicles' = (vid :> NewVehicle(vid)) @@ uVehicles
    /\ uVehicleOrder' = Append(uVehicleOrder, vid)
    /\ UNCHANGED <<now, uTasks, uQueue, uCalls>>
    /\ UNCHANGED notU

\* register_vehicle, the caller choosing the vehicle and where it stands
URegisterVehicleAt == \E vid \in UVehicleIds, location \in {0, 2} :
    /\ vid \notin DOMAIN uVehicles
    /\ uVehicles' = (vid :> [NewVehicle(vid) EXCEPT !.location = location]) @@ uVehicles
    /\ uVehicleOrder' = Append(uVehicleOrder, vid)
    /\ UNCHANGED <<now, uTasks, uQueue, uCalls>>
    /\ UNCHANGED notU

\* create_task(task) for a task of the given id, deadline and priority
DoCreateTask(tid, dl, priority) ==
    /\ tid \notin DOMAIN uTasks
    /\ uTasks' = (tid :> [NewTask(tid, dl) EXCEPT !.priority = priority]) @@ uTasks
    /\ uQueue' = uQueue \cup {<<0 - priority, now, tid>>}
    /\ UNCHANGED <<now, uVehicles, uVehicleOrder, uCalls>>
    /\ UNCHANGED notU

\* create_task
UCreateTask == \E tid \in UTaskIds, dl \in Deadlines : DoCreateTask(tid, dl, UTaskPriority[tid])

\* create_task, the caller choosing the priority (Priority.MEDIUM or HIGH)
UCreateTaskOfPriority == \E tid \in UTaskIds, priority \in {1, 2} : DoCreateTask(tid, NoTime, priority)

\* the clock of datetime.now(), second by second
Tick == /\ now < MaxClock
        /\ now' = now + 1
        /\ UNCHANGED <<uVehicles, uVehicleOrder, uTasks, uQueue, uCalls>>
        /\ UNCHANGED notU

\* _scheduler_loop: one iteration that finds the queue non-empty
USchedulerTick ==
    /\ uQueue # {}
    /\ \E e \in {QueueHead(uQueue)} :
         LET tid == e[3]
         IN IF uTasks[tid].status = "pending"
            THEN \E r \in {AssignTask(uVehicles, uVehicleOrder, uTasks[tid], now)} :
                    /\ uVehicles' = r.veh
                    /\ uTasks' = [uTasks EXCEPT ![tid].assigned_vehicles = r.asg, ![tid].status = IF r.ok THEN "assigned" ELSE @]
                    /\ uQueue' = IF r.ok THEN uQueue \ {e} ELSE (uQueue \ {e}) \cup {<<e[1], now, tid>>}
            ELSE /\ uQueue' = uQueue \ {e}
                 /\ UNCHANGED <<uVehicles, uTasks>>
    /\ UNCHANGED <<now, uVehicleOrder, uCalls>>
    /\ UNCHANGED notU

\* _monitor_loop: one iteration
UMonitorTick ==
    /\ uVehicles' = [vid \in DOMAIN uVehicles |-> IF now - uVehicles[vid].last_updated > VehicleTimeout THEN [uVehicles[vid] EXCEPT !.status = "unknown"] ELSE uVehicles[vid]]
    /\ uTasks' = [tid \in DOMAIN uTasks |-> IF uTasks[tid].deadline # NoTime /\ now > uTasks[tid].deadline /\ uTasks[tid].status \notin {"completed", "failed"} THEN [uTasks[tid] EXCEPT !.status = "failed"] ELSE uTasks[tid]]
    /\ UNCHANGED <<now, uVehicleOrder, uQueue, uCalls>>
    /\ UNCHANGED notU

\* update_vehicle_status with a payload that adds up
UpdateVehicleStatusAdding(veh, vid, m, t) ==
    IF vid \notin DOMAIN veh THEN veh
    ELSE [veh EXCEPT ![vid].location = UVehicleHome[vid], ![vid].battery = m[2], ![vid].status = m[1], ![vid].current_payload = @ + m[3], ![vid].last_updated = t]

\* update_vehicle_status(vid, location, battery, status, current_payload)
\* called at time t: the registry it leaves
UpdateVehicleStatusEffect(veh, vid, m, t) ==
    IF vid \notin DOMAIN veh THEN veh
    ELSE [veh EXCEPT ![vid].location = UVehicleHome[vid], ![vid].battery = m[2], ![vid].status = m[1], ![vid].current_payload = m[3], ![vid].last_updated = t]

\* update_vehicle_status
UUpdateVehicleStatus == \E vid \in DOMAIN uVehicles, m \in Telemetry :
    /\ uCalls < MaxCalls
    /\ uCalls' = uCalls + 1
    /\ uVehicles' = UpdateVehicleStatusEffect(uVehicles, vid, m, now)
    /\ UNCHANGED <<now, uVehicleOrder, uTasks, uQueue>>
    /\ UNCHANGED notU

\* update_task_status
UUpdateTaskStatus == \E tid \in DOMAIN uTasks, s \in TaskStatuses :
    /\ uCalls < MaxCalls
    /\ uCalls' = uCalls + 1
    /\ uTasks' = [uTasks EXCEPT ![tid].status = s]
    /\ uVehicles' = IF s = "completed"
                    THEN [vid \in DOMAIN uVehicles |-> IF \E st \in DOMAIN uTasks[tid].assigned_vehicles : uTasks[tid].assigned_vehicles[st] = vid THEN [uVehicles[vid] EXCEPT !.status = "idle"] ELSE uVehicles[vid]]
                    ELSE uVehicles
    /\ UNCHANGED <<now, uVehicleOrder, uQueue>>
    /\ UNCHANGED notU

\* the queue at work: tasks of any priority, created and re-queued as the
\* clock goes on
UQNext == \/ Tick
          \/ URegisterVehicle
          \/ UCreateTaskOfPriority
          \/ USchedulerTick

\* vehicles registered in any order, then scheduled
UONext == \/ URegisterVehicleAt
          \/ UCreateTask
          \/ USchedulerTick

UNext == \/ AdvanceTime
         \/ URegisterVehicle
         \/ UCreateTask
         \/ USchedulerTick
         \/ UMonitorTick
         \/ UUpdateVehicleStatus
         \/ UUpdateTaskStatus

\* ---- the threads of UnifiedScheduler, statement by statement ----
\* __init__ starts _scheduler_loop and _monitor_loop in threads of their own
\* and callers report telemetry from theirs; self.vehicles and self.tasks
\* are plain dicts with no lock.  The scheduler thread is followed through
\* _assign_task: for every stage it reads the registry
\* (_find_suitable_vehicles, min) and then writes it (assigned_vehicles,
\* status = 'busy').  update_vehicle_status writes its five fields one after
\* the other: location and battery in one step, status, current_payload and
\* last_updated in the next.  (The monitor thread, which also writes
\* vehicle.status, is left out of the interleaving: the clock stands still.)
SchedIdle == [pc |-> "idle", tid |-> None, stage |-> 0, best |-> None]
TeleIdle == [pc |-> "idle", vid |-> None, m |-> <<>>]

UThreadsInit == uThreads = [sched |-> SchedIdle, tele |-> TeleIdle]

\* the scheduler thread moves on from stage k of _assign_task
SchedAfterStage(k) == IF k < Len(Stages) THEN [uThreads.sched EXCEPT !.pc = "find", !.stage = k + 1, !.best = None]
                      ELSE [uThreads.sched EXCEPT !.pc = "return", !.best = None]

\* _scheduler_loop: task_queue.get() and the test of task.status
SchedGet ==
    /\ uThreads.sched.pc = "idle"
    /\ uQueue # {}
    /\ \E e \in {QueueHead(uQueue)} :
         /\ uQueue' = uQueue \ {e}
         /\ uThreads' = [uThreads EXCEPT !.sched = IF uTasks[e[3]].status = "pending" THEN [pc |-> "find", tid |-> e[3], stage |-> 1, best |-> None] ELSE SchedIdle]
    /\ UNCHANGED <<now, uVehicles, uVehicleOrder, uTasks, uCalls>>
    /\ UNCHANGED notUC

\* _assign_task, one stage: _find_suitable_vehicles and min(...)
SchedFind ==
    /\ uThreads.sched.pc = "find"
    /\ \E cands \in {FindSuitableVehicles(uVehicles, uVehicleOrder, uTasks[uThreads.sched.tid])} :
         uThreads' = [uThreads EXCEPT !.sched = IF cands = <<>> THEN SchedAfterStage(uThreads.sched.stage)
                                                ELSE [uThreads.sched EXCEPT !.pc = "mark", !.best = MinByCost(uVehicles, uTasks[uThreads.sched.tid], cands, Stages[uThreads.sched.stage], now)]]
    /\ UNCHANGED uvars
    /\ UNCHANGED notUC

\* _assign_task, one stage: task.assigned_vehicles[stage] = best_vehicle,
\* self.vehicles[best_vehicle].status = 'busy' and the planning of the path.
\* For a drone the call schedule_flight(drone_id=, start=, goal=) names
\* parameters that schedule_flight does not have and raises TypeError;
\* neither _assign_task nor _scheduler_loop has a handler, so the thread ends.
SchedMark ==
    /\ uThreads.sched.pc = "mark"
    /\ uTasks' = [uTasks EXCEPT ![uThreads.sched.tid].assigned_vehicles = (Stages[uThreads.sched.stage] :> uThreads.sched.best) @@ @]
    /\ uVehicles' = [uVehicles EXCEPT ![uThreads.sched.best].status = "busy"]
    /\ uThreads' = [uThreads EXCEPT !.sched = IF uVehicles[uThreads.sched.best].type = "drone" THEN [uThreads.sched EXCEPT !.pc = "dead"] ELSE SchedAfterStage(uThreads.sched.stage)]
    /\ UNCHANGED <<now, uVehicleOrder, uQueue, uCalls>>
    /\ UNCHANGED notUC

\* _assign_task returns; _scheduler_loop sets ASSIGNED or puts the task back
SchedReturn ==
    /\ uThreads.sched.pc = "return"
    /\ \E tid \in {uThreads.sched.tid} :
         IF Cardinality(DOMAIN uTasks[tid].assigned_vehicles) = Len(Stages)
         THEN /\ uTasks' = [uTasks EXCEPT ![tid].status = "assigned"]
              /\ UNCHANGED uQueue
         ELSE /\ uQueue' = uQueue \cup {<<0 - uTasks[tid].priority, now, tid>>}
              /\ UNCHANGED uTasks
    /\ uThreads' = [uThreads EXCEPT !.sched = SchedIdle]
    /\ UNCHANGED <<now, uVehicles, uVehicleOrder, uCalls>>
    /\ UNCHANGED notUC

\* update_vehicle_status: vehicle.location = ...; vehicle.battery = ...
TeleWriteFirst == \E vid \in DOMAIN uVehicles, m \in Telemetry :
    /\ uThreads.tele.pc = "idle"
    /\ uCalls < MaxCalls
    /\ uCalls' = uCalls + 1
    /\ uVehicles' = [uVehicles EXCEPT ![vid].location = UVehicleHome[vid], ![vid].battery = m[2]]
    /\ uThreads' = [uThreads EXCEPT !.tele = [pc |-> "half", vid |-> vid, m |-> m]]
    /\ UNCHANGED <<now, uVehicleOrder, uTasks, uQueue>>
    /\ UNCHANGED notUC

\* update_vehicle_status: vehicle.status = ...; vehicle.current_payload = ...;
\* vehicle.last_updated = ...
TeleWriteRest ==
    /\ uThreads.tele.pc = "half"
    /\ uVehicles' = [uVehicles EXCEPT ![uThreads.tele.vid].status = uThreads.tele.m[1], ![uThreads.tele.vid].current_payload = uThreads.tele.m[3], ![uThreads.tele.vid].last_updated = now]
    /\ uThreads' = [uThreads EXCEPT !.tele = TeleIdle]
    /\ UNCHANGED <<now, uVehicleOrder, uTasks, uQueue, uCalls>>
    /\ UNCHANGED notUC

UCNext == \/ URegisterVehicle
          \/ UCreateTask
          \/ SchedGet
          \/ SchedFind
          \/ SchedMark
          \/ SchedReturn
          \/ TeleWriteFirst
          \/ TeleWriteRest


\* ---- save_state / load_state ----
\* Python values are pairs <<type, value>>.  A registry "as Python values"
\* is dict id -> field -> pair.
PyVehicle(v) == [type |-> <<"VehicleType", v.type>>, location |-> <<"tuple", v.location>>, battery |-> <<"float", v.battery>>,
                 status |-> <<"str", v.status>>, payload_capacity |-> <<"float", v.payload_capacity>>,
                 current_payload |-> <<"float", v.current_payload>>, last_updated |-> <<"datetime", v.last_updated>>,
                 capabilities |-> <<"list", v.capabilities>>]

PyTask(t) == [priority |-> <<"Priority", t.priority>>, start_point |-> <<"DeliveryPoint", t.start_point>>, end_point |-> <<"DeliveryPoint", t.end_point>>,
              status |-> <<"TaskStatus", t.status>>, assigned_vehicles |-> <<"dict", t.assigned_vehicles>>,
              payload_weight |-> <<"float", t.payload_weight>>, special_requirements |-> <<"list", t.special_requirements>>,
              created_time |-> <<"datetime", t.created_time>>,
              deadline |-> IF t.deadline = NoTime THEN <<"NoneType", NoTime>> ELSE <<"datetime", t.deadline>>]

\* self.vehicles and self.tasks as Python values
PyState(veh, tasks) == [vehicles |-> [vid \in DOMAIN veh |-> PyVehicle(veh[vid])], tasks |-> [tid \in DOMAIN tasks |-> PyTask(tasks[tid])]]

\* json.dump(..., default=str) of one value: a tuple is written as an array,
\* and what json cannot encode (an Enum member, a datetime, a DeliveryPoint)
\* as the string str(x), which is kept here as the value it was made from
JsonDump(x) == IF x[1] \in {"tuple", "list"} THEN <<"array", x[2]>>
               ELSE IF x[1] = "float" THEN <<"number", x[2]>>
               ELSE IF x[1] = "dict" THEN <<"object", x[2]>>
               ELSE IF x[1] = "NoneType" THEN <<"null", x[2]>>
               ELSE IF x[1] = "str" THEN <<"string", x[2]>>
               ELSE <<"string", x>>

\* json.load of one value
JsonLoad(j) == IF j[1] = "array" THEN <<"list", j[2]>>
               ELSE IF j[1] = "number" THEN <<"float", j[2]>>
               ELSE IF j[1] = "object" THEN <<"dict", j[2]>>
               ELSE IF j[1] = "null" THEN <<"NoneType", j[2]>>
               ELSE <<"str", j[2]>>

\* json.dump of the state dict that save_state builds with vars()
DumpState(st) == [vehicles |-> [vid \in DOMAIN st.vehicles |-> [f \in DOMAIN st.vehicles[vid] |-> JsonDump(st.vehicles[vid][f])]],
                  tasks |-> [tid \in DOMAIN st.tasks |-> [f \in DOMAIN st.tasks[tid] |-> JsonDump(st.tasks[tid][f])]]]

\* json.load of the file, and the registries load_state builds from it
LoadState(file) == [vehicles |-> [vid \in DOMAIN file.vehicles |-> [f \in DOMAIN file.vehicles[vid] |-> JsonLoad(file.vehicles[vid][f])]],
                    tasks |-> [tid \in DOMAIN file.tasks |-> [f \in DOMAIN file.tasks[tid] |-> JsonLoad(file.tasks[tid][f])]]]

NoState == [vehicles |-> <<>>, tasks |-> <<>>]

UStoreInit == uStore = [saved |-> FALSE, file |-> NoState, loaded |-> FALSE, state |-> NoState]

\* save_state(filename)
USaveState ==
    /\ ~uStore.loaded
    /\ uStore' = [uStore EXCEPT !.saved = TRUE, !.file = DumpState(PyState(uVehicles, uTasks))]
    /\ UNCHANGED <<uvars, uThreads>>
    /\ UNCHANGED <<fvars, tvars, dvars, mvars, kvars, pvars>>

\* load_state(filename): Vehicle(**vdata) and Task(**tdata) take the loaded
\* values as they are.  uStore.state is self.vehicles / self.tasks from then
\* on, and the model follows the scheduler no further.
ULoadState ==
    /\ uStore.saved
    /\ ~uStore.loaded
    /\ uStore' = [uStore EXCEPT !.loaded = TRUE, !.state = LoadState(uStore.file)]
    /\ UNCHANGED <<uvars, uThreads>>
    /\ UNCHANGED <<fvars, tvars, dvars, mvars, kvars, pvars>>

UPNext == \/ ~uStore.loaded /\ (AdvanceTime \/ URegisterVehicle \/ UCreateTask \/ USchedulerTick)
          \/ USaveState
          \/ ULoadState

(***************************************************************************)
(* ======================  FlightScheduler  =============================  *)
(* Positions are (lat, lon) in units of 0.00001 degree, altitudes and      *)
(* obstacle heights in metres, distances in decimetres, times in tenths    *)
(* of a second.                                                            *)
(***************************************************************************)
\* ---- program constants ----
\* self.min_separation = 0.0001 degree
MinSeparation == 10
VerticalSeparation == 10
AltitudeLevels == [i \in 1..10 |-> 20 + 10 * i]
Speed == 10
SafetyMargin == 5
\* length of 0.00001 degree of latitude / of longitude at 22.5 N, in decimetres
LatDm == 11
LonDm == 10

\* ---- inputs ----
Drones == {"drone1", "drone2"}
\* the waypoint lists that callers request
Corridors == [A |-> <<(<<0, 0>>), (<<0, 100>>)>>, B |-> <<(<<20, 0>>), (<<20, 100>>)>>, D |-> <<(<<200, 0>>), (<<200, 100>>)>>, E |-> <<(<<400, 0>>), (<<400, 100>>)>>]
CorridorIds == DOMAIN Corridors
StartTimes == {0, 600}
FPriorities == {1}
FlightStatuses == {"scheduled", "active", "completed", "aborted"}
\* env_manager.static_obstacles
StaticObstacles == {[position |-> <<200, 0, 0>>, radius |-> 5, height |-> 100], [position |-> <<400, 50, 0>>, radius |-> 5, height |-> 40]}

\* math.sqrt, rounded down
RECURSIVE ISqrtBetween(_, _, _)
ISqrtBetween(n, lo, hi) == IF lo >= hi THEN lo
                           ELSE CHOOSE r \in {IF mid * mid <= n THEN ISqrtBetween(n, mid, hi) ELSE ISqrtBetween(n, lo, mid - 1) : mid \in {(lo + hi + 1) \div 2}} : TRUE

\* (the search stays below the largest root of a 32-bit integer)
MaxRoot == 46340

ISqrt(n) == ISqrtBetween(n, 0, IF n < MaxRoot THEN n ELSE MaxRoot)

\* the square of the ground distance of two points, in decimetres
GroundDistanceSq(p, q) == (LatDm * (p[1] - q[1])) * (LatDm * (p[1] - q[1])) + (LonDm * (p[2] - q[2])) * (LonDm * (p[2] - q[2]))

\* calculate_distance, in decimetres
FCalculateDistance(p, q) == ISqrt(GroundDistanceSq(p, q) + (100 * (q[3] - p[3]) * (q[3] - p[3])))

\* calculate_duration, in tenths of a second
RECURSIVE TotalDistance(_, _)
TotalDistance(wps, i) == IF i >= Len(wps) THEN 0 ELSE FCalculateDistance(wps[i], wps[i + 1]) + TotalDistance(wps, i + 1)

CalculateDuration(wps) == TotalDistance(wps, 1) \div Speed

\* check_point_conflict
CheckPointConflict(p, q) ==
    IF Abs(p[1] - q[1]) > MinSeparation \/ Abs(p[2] - q[2]) > MinSeparation THEN FALSE
    ELSE IF Abs(p[3] - q[3]) >= VerticalSeparation THEN FALSE
    ELSE TRUE

\* check_path_conflict
CheckPathConflict(path1, path2) ==
    IF path1.status = "completed" \/ path2.status = "completed" THEN FALSE
    ELSE IF path1.start_time + path1.estimated_duration < path2.start_time \/ path2.start_time + path2.estimated_duration < path1.start_time THEN FALSE
    ELSE \E i \in 1..Len(path1.waypoints), j \in 1..Len(path2.waypoints) : CheckPointConflict(path1.waypoints[i], path2.waypoints[j])

\* get_max_building_height
GetMaxBuildingHeight(lat, lon) ==
    LET over == {o \in StaticObstacles : (lat - o.position[1]) * (lat - o.position[1]) + (lon - o.position[2]) * (lon - o.position[2]) <= o.radius * o.radius}
    IN IF over = {} THEN 0 ELSE CHOOSE h \in {o.position[3] + o.height : o \in over} : \A o \in over : o.position[3] + o.height <= h

\* check_building_clearance
CheckBuildingClearance(wp) == wp[3] >= GetMaxBuildingHeight(wp[1], wp[2]) + SafetyMargin

\* waypoints with the altitude added
At(wps, alt) == [i \in 1..Len(wps) |-> <<wps[i][1], wps[i][2], alt>>]

\* the route that schedule_flight / find_safe_altitude build
NewFlightPath(drone_id, wps3, start_time, priority) == [drone_id |-> drone_id, waypoints |-> wps3, start_time |-> start_time, estimated_duration |-> CalculateDuration(wps3), priority |-> priority, status |-> "scheduled"]

\* find_safe_altitude, the loop over the levels from the k-th on: the first
\* level at or above min_safe_alt whose test route conflicts with no stored
\* route, or 0 for None
RECURSIVE FirstFreeLevel(_, _, _, _, _)
FirstFreeLevel(paths, wps, start_time, min_safe_alt, k) ==
    IF k > Len(AltitudeLevels) THEN 0
    ELSE IF AltitudeLevels[k] >= min_safe_alt /\ \E test_path \in {NewFlightPath("test", At(wps, AltitudeLevels[k]), start_time, 0)} : \A d \in DOMAIN paths : ~CheckPathConflict(test_path, paths[d])
    THEN AltitudeLevels[k]
    ELSE FirstFreeLevel(paths, wps, start_time, min_safe_alt, k + 1)

\* find_safe_altitude: 0 for None
FindSafeAltitude(paths, wps, start_time) ==
    LET max_building_height == IF wps = <<>> THEN 0 ELSE CHOOSE h \in {GetMaxBuildingHeight(wps[i][1], wps[i][2]) : i \in 1..Len(wps)} : \A i \in 1..Len(wps) : GetMaxBuildingHeight(wps[i][1], wps[i][2]) <= h
    IN CHOOSE alt \in {FirstFreeLevel(paths, wps, start_time, min_safe_alt, 1) : min_safe_alt \in {max_building_height + SafetyMargin}} : TRUE

\* check_path_building_safety: 11 samples on every leg
CheckPathBuildingSafety(wps3) ==
    \A i \in 1..(Len(wps3) - 1), step \in 0..10 :
        CheckBuildingClearance(<<wps3[i][1] + ((wps3[i + 1][1] - wps3[i][1]) * step) \div 10, wps3[i][2] + ((wps3[i + 1][2] - wps3[i][2]) * step) \div 10, wps3[i][3] + ((wps3[i + 1][3] - wps3[i][3]) * step) \div 10>>)

\* fReturn is "none" before the first call, "no_safe_altitude" for the
\* `return False` that follows a find_safe_altitude result of None,
\* "unsafe_path" for the `return False` that follows a failed
\* check_path_building_safety, and "scheduled" for `return True`.
\* the locals of a thread that is in no schedule_flight call
NoCall == [pc |-> "idle", c |-> "A", start_time |-> 0, priority |-> 0, safe_alt |-> 0]

FInit == /\ flight_paths = <<>>
         /\ fReturn = "none"
         /\ fCalls = [d \in Drones |-> NoCall]

\* a schedule_flight that, when it finds no safe altitude, also drops the
\* route stored for the drone
ScheduleFlightDroppingRoute(drone_id, c, start_time, priority) ==
    /\ \E safe_alt \in {FindSafeAltitude(flight_paths, Corridors[c], start_time)} :
         IF safe_alt = 0
         THEN /\ fReturn' = "no_safe_altitude"
              /\ flight_paths' = [d \in DOMAIN flight_paths \ {drone_id} |-> flight_paths[d]]
         ELSE IF ~CheckPathBuildingSafety(At(Corridors[c], safe_alt))
         THEN /\ fReturn' = "unsafe_path"
              /\ UNCHANGED flight_paths
         ELSE /\ fReturn' = "scheduled"
              /\ flight_paths' = (drone_id :> NewFlightPath(drone_id, At(Corridors[c], safe_alt), start_time, priority)) @@ flight_paths
    /\ UNCHANGED fCalls
    /\ UNCHANGED notF

\* schedule_flight(drone_id, Corridors[c], start_time, priority)
DoScheduleFlight(drone_id, c, start_time, priority) ==
    /\ \E safe_alt \in {FindSafeAltitude(flight_paths, Corridors[c], start_time)} :
         IF safe_alt = 0
         THEN /\ fReturn' = "no_safe_altitude"
              /\ UNCHANGED flight_paths
         ELSE IF ~CheckPathBuildingSafety(At(Corridors[c], safe_alt))
         THEN /\ fReturn' = "unsafe_path"
              /\ UNCHANGED flight_paths
         ELSE /\ fReturn' = "scheduled"
              /\ flight_paths' = (drone_id :> NewFlightPath(drone_id, At(Corridors[c], safe_alt), start_time, priority)) @@ flight_paths
    /\ UNCHANGED fCalls
    /\ UNCHANGED notF

ScheduleFlight == \E drone_id \in Drones, c \in CorridorIds, start_time \in StartTimes, priority \in FPriorities : DoScheduleFlight(drone_id, c, start_time, priority)

\* update_flight_status
UpdateFlightStatus == \E drone_id \in Drones, status \in FlightStatuses :
    /\ IF drone_id \in DOMAIN flight_paths
       THEN flight_paths' = [flight_paths EXCEPT ![drone_id].status = status]
       ELSE UNCHANGED flight_paths
    /\ UNCHANGED <<fReturn, fCalls>>
    /\ UNCHANGED notF

\* ---- the drones of one airspace zone ----
\* self.max_drones_per_zone (MapManager)
MaxDronesPerZone == 5
ZoneDrones == {"drone1", "drone2", "drone3", "drone4", "drone5", "drone6"}

\* schedule_flight for a drone that has no route yet, along the first route
ScheduleFirstFlight == \E drone_id \in ZoneDrones \ DOMAIN flight_paths : DoScheduleFlight(drone_id, "A", 0, 1)

FZNext == ScheduleFirstFlight

FNext == \/ ScheduleFlight
         \/ UpdateFlightStatus

\* ---- schedule_flight called from several threads ----
\* FlightScheduler holds no lock, so a thread can be switched out between
\* the statements of schedule_flight.  The thread that schedules for drone d
\* runs the call in two steps: find_safe_altitude, which reads
\* self.flight_paths, and the rest of the call, which ends with the write
\* self.flight_paths[drone_id] = flight_path.

\* schedule_flight up to the test `if safe_alt is None`
ThreadFindSafeAltitude(d) == \E c \in CorridorIds, start_time \in StartTimes, priority \in FPriorities :
    /\ fCalls[d].pc = "idle"
    /\ \E safe_alt \in {FindSafeAltitude(flight_paths, Corridors[c], start_time)} :
         IF safe_alt = 0
         THEN /\ fReturn' = "no_safe_altitude"
              /\ UNCHANGED fCalls
         ELSE /\ fCalls' = [fCalls EXCEPT ![d] = [pc |-> "found", c |-> c, start_time |-> start_time, priority |-> priority, safe_alt |-> safe_alt]]
              /\ UNCHANGED fReturn
    /\ UNCHANGED flight_paths
    /\ UNCHANGED notF

\* schedule_flight from check_path_building_safety to its return
ThreadInsertRoute(d) ==
    /\ fCalls[d].pc = "found"
    /\ \E waypoints_3d \in {At(Corridors[fCalls[d].c], fCalls[d].safe_alt)} :
         IF ~CheckPathBuildingSafety(waypoints_3d)
         THEN /\ fReturn' = "unsafe_path"
              /\ UNCHANGED flight_paths
         ELSE /\ fReturn' = "scheduled"
              /\ flight_paths' = (d :> NewFlightPath(d, waypoints_3d, fCalls[d].start_time, fCalls[d].priority)) @@ flight_paths
    /\ fCalls' = [fCalls EXCEPT ![d] = NoCall]
    /\ UNCHANGED notF

FCNext == \/ \E d \in Drones : ThreadFindSafeAltitude(d)
          \/ \E d \in Drones : ThreadInsertRoute(d)

(***************************************************************************)
(* ======================  TaskScheduler  ===============================  *)
(* A task id is the pair <<name, stamp>>: a caller's task "task1" is       *)
(* <<"task1", NoTime>>, and the resupply task whose id is                  *)
(* 'resupply_<drone>_<timestamp>' is <<"resupply_<drone>", timestamp>>.   *)
(* run_scheduler sleeps 10 s between iterations, so the timestamp of an    *)
(* iteration is its number.                                                *)
(***************************************************************************)
\* ---- bounds of the model ----
\* number of iterations of run_scheduler in one run
MaxTicks == 2

\* ---- program constants ----
\* the battery level that get_suitable_vehicles / assign_task / run_scheduler compare with
TBatteryThreshold == 30

\* ---- inputs ----
TVehicleIdSeq == <<"drone1", "car1">>
TVehicleIds == Range(TVehicleIdSeq)
\* a fleet with two drones
TFleetIdSeq == <<"drone1", "drone2", "car1">>
TVehicleType == [drone1 |-> "drone", drone2 |-> "drone", car1 |-> "car"]
TVehicleMaxPayload == [drone1 |-> 5, drone2 |-> 5, car1 |-> 20]
TVehicleHome == [drone1 |-> 0, drone2 |-> 1, car1 |-> 3]
\* (battery_level, current_payload) of a vehicle at registration
TProfiles == {<<90, 0>>, <<90, 4>>, <<20, 0>>}
TVehicleStatuses == {"idle", "busy", "charging"}
TTaskNames == {"task1", "task2"}
TTaskWeight == [task1 |-> 2, task2 |-> 15]
TTaskPriority == [task1 |-> 3, task2 |-> 4]
TTaskPickup == [task1 |-> 1, task2 |-> 2]
TTaskDelivery == [task1 |-> 2, task2 |-> 1]

\* f'resupply_{drone.id}'
ResupplyName == [drone1 |-> "resupply_drone1", drone2 |-> "resupply_drone2", car1 |-> "resupply_car1"]

TNewVehicle(vid, prof) == [type |-> TVehicleType[vid], location |-> TVehicleHome[vid], status |-> "idle", battery_level |-> prof[1], max_payload |-> TVehicleMaxPayload[vid], current_payload |-> prof[2]]

TNewTask(name, t) == [pickup |-> TTaskPickup[name], delivery |-> TTaskDelivery[name], weight |-> TTaskWeight[name], priority |-> TTaskPriority[name], created_at |-> t, task_type |-> "delivery", assigned_to |-> None, support_vehicle |-> None, status |-> "pending"]

\* create_resupply_task
CreateResupplyTask(veh, drone_id, car_id, t) == [pickup |-> veh[car_id].location, delivery |-> veh[drone_id].location, weight |-> 0, priority |-> 5, created_at |-> t, task_type |-> "resupply", assigned_to |-> car_id, support_vehicle |-> drone_id, status |-> "pending"]

\* min(seq, key): the first element of least key
FirstMin(seq, key(_)) == seq[CHOOSE i \in 1..Len(seq) : (\A j \in 1..Len(seq) : key(seq[i]) <= key(seq[j])) /\ (\A j \in 1..(i - 1) : key(seq[j]) > key(seq[i]))]

\* find_nearest_support_vehicle (None if no car is idle)
FindNearestSupportVehicle(veh, order, loc) ==
    LET available_cars == SelectSeq(order, LAMBDA v : veh[v].type = "car" /\ veh[v].status = "idle")
    IN IF available_cars = <<>> THEN None ELSE FirstMin(available_cars, LAMBDA v : CalculateDistance(loc, veh[v].location))

\* run_scheduler, first loop: the body for the vehicle order[i] and the rest
\* st is [veh |-> vehicles, tasks |-> tasks, torder |-> key order of tasks, flights |-> route statuses]
RECURSIVE CheckBatteries(_, _, _, _)
CheckBatteries(st, order, i, t) ==
    IF i > Len(order) THEN st
    ELSE CHOOSE r \in {CheckBatteries(s, order, i + 1, t) : s \in
           {LET vid == order[i]
                car == FindNearestSupportVehicle(st.veh, order, st.veh[vid].location)
                tid == <<ResupplyName[vid], t>>
            IN IF st.veh[vid].type = "drone" /\ st.veh[vid].status = "busy" /\ st.veh[vid].battery_level < TBatteryThreshold /\ car # None
               THEN [st EXCEPT !.veh = [st.veh EXCEPT ![vid].status = "need_resupply"],
                               !.tasks = (tid :> CreateResupplyTask(st.veh, vid, car, t)) @@ st.tasks,
                               !.torder = IF tid \in Range(st.torder) THEN st.torder ELSE Append(st.torder, tid)]
               ELSE st}} : TRUE

\* the sort key (-priority, 0 if resupply else 1, created_at) of run_scheduler
TKeyLess(a, b) == \/ a.priority > b.priority
                  \/ a.priority = b.priority /\ a.task_type = "resupply" /\ b.task_type # "resupply"
                  \/ a.priority = b.priority /\ (a.task_type = "resupply") = (b.task_type = "resupply") /\ a.created_at < b.created_at

\* list.sort of the pending tasks (stable: equal keys keep the dict order)
RECURSIVE SortTasks(_, _)
SortTasks(tasks, seq) ==
    IF seq = <<>> THEN <<>>
    ELSE LET k == CHOOSE i \in 1..Len(seq) : (\A j \in 1..Len(seq) : ~TKeyLess(tasks[seq[j]], tasks[seq[i]])) /\ (\A j \in 1..(i - 1) : TKeyLess(tasks[seq[i]], tasks[seq[j]]))
         IN <<seq[k]>> \o SortTasks(tasks, SubSeq(seq, 1, k - 1) \o SubSeq(seq, k + 1, Len(seq)))

\* assign_task; flight_ok is the result of schedule_drone_flight
TAssignTask(st, order, tid, flight_ok) ==
    LET task == st.tasks[tid]
        suitable_drones == SelectSeq(order, LAMBDA v : st.veh[v].type = "drone" /\ st.veh[v].status = "idle" /\ st.veh[v].battery_level > TBatteryThreshold /\ st.veh[v].max_payload >= task.weight)
        suitable_cars == SelectSeq(order, LAMBDA v : st.veh[v].type = "car" /\ st.veh[v].status = "idle" /\ st.veh[v].max_payload >= task.weight)
    IN IF task.task_type = "delivery"
       THEN IF suitable_drones # <<>>
            THEN LET best_drone == FirstMin(suitable_drones, LAMBDA v : CalculateDistance(st.veh[v].location, task.pickup) + CalculateDistance(task.pickup, task.delivery))
                 IN IF ~flight_ok THEN st
                    ELSE [st EXCEPT !.flights = (best_drone :> "scheduled") @@ st.flights,
                                    !.tasks = [st.tasks EXCEPT ![tid].assigned_to = best_drone, ![tid].status = "assigned"],
                                    !.veh = [st.veh EXCEPT ![best_drone].status = "busy"]]
            ELSE IF suitable_cars # <<>>
            THEN LET best_car == FirstMin(suitable_cars, LAMBDA v : CalculateDistance(st.veh[v].location, task.pickup))
                 IN [st EXCEPT !.tasks = [st.tasks EXCEPT ![tid].assigned_to = best_car, ![tid].status = "assigned"],
                               !.veh = [st.veh EXCEPT ![best_car].status = "busy"]]
            ELSE st
       ELSE IF task.task_type = "resupply"
       THEN [st EXCEPT !.veh = [st.veh EXCEPT ![task.assigned_to].status = "busy"]]
       ELSE st

\* run_scheduler, second loop: assign the pending tasks in sorted order
RECURSIVE AssignAll(_, _, _, _, _)
AssignAll(st, order, pending, i, ok_set) ==
    IF i > Len(pending) THEN st
    ELSE CHOOSE r \in {AssignAll(s, order, pending, i + 1, ok_set) : s \in {TAssignTask(st, order, pending[i], pending[i] \in ok_set)}} : TRUE

TInit == /\ tVehicles = <<>>
         /\ tVehicleOrder = <<>>
         /\ tTasks = <<>>
         /\ tTaskOrder = <<>>
         /\ tFlights = <<>>
         /\ tTicks = 0
         /\ tCalls = 0

\* register_vehicle
TRegisterVehicle == \E vid \in TVehicleIds, prof \in TProfiles :
    /\ Len(tVehicleOrder) < Len(TVehicleIdSeq)
    /\ vid = TVehicleIdSeq[Len(tVehicleOrder) + 1]
    /\ tVehicles' = (vid :> TNewVehicle(vid, prof)) @@ tVehicles
    /\ tVehicleOrder' = Append(tVehicleOrder, vid)
    /\ UNCHANGED <<tTasks, tTaskOrder, tFlights, tTicks, tCalls>>
    /\ UNCHANGED notT

\* register_vehicle, for the fleet with two drones
TRegisterFleetVehicle == \E prof \in TProfiles :
    /\ Len(tVehicleOrder) < Len(TFleetIdSeq)
    /\ \E vid \in {TFleetIdSeq[Len(tVehicleOrder) + 1]} :
         /\ tVehicles' = (vid :> TNewVehicle(vid, prof)) @@ tVehicles
         /\ tVehicleOrder' = Append(tVehicleOrder, vid)
    /\ UNCHANGED <<tTasks, tTaskOrder, tFlights, tTicks, tCalls>>
    /\ UNCHANGED notT

\* add_task
TAddTask == \E name \in TTaskNames :
    /\ <<name, NoTime>> \notin DOMAIN tTasks
    /\ tTasks' = (<<name, NoTime>> :> TNewTask(name, tTicks)) @@ tTasks
    /\ tTaskOrder' = Append(tTaskOrder, <<name, NoTime>>)
    /\ UNCHANGED <<tVehicles, tVehicleOrder, tFlights, tTicks, tCalls>>
    /\ UNCHANGED notT

\* update_vehicle_status(vid, status, location, altitude): the registry and
\* the route statuses it leaves; with_altitude tells whether an altitude is
\* given, and update_flight_status changes a stored route only
TUpdateVehicleStatusEffect(st, vid, status, with_altitude) ==
    IF vid \notin DOMAIN st.veh THEN st
    ELSE [veh |-> [st.veh EXCEPT ![vid].status = status, ![vid].location = TVehicleHome[vid]],
          flights |-> IF with_altitude /\ st.veh[vid].type = "drone" /\ vid \in DOMAIN st.flights THEN [st.flights EXCEPT ![vid] = status] ELSE st.flights]

\* update_vehicle_status
TUpdateVehicleStatus == \E vid \in TVehicleIds, status \in TVehicleStatuses, with_altitude \in BOOLEAN :
    /\ tCalls < MaxCalls
    /\ tCalls' = tCalls + 1
    /\ \E r \in {TUpdateVehicleStatusEffect([veh |-> tVehicles, flights |-> tFlights], vid, status, with_altitude)} :
         /\ tVehicles' = r.veh
         /\ tFlights' = r.flights
    /\ UNCHANGED <<tVehicleOrder, tTasks, tTaskOrder, tTicks>>
    /\ UNCHANGED notT

\* run_scheduler: one iteration of the loop
TRunScheduler == \E ok_set \in SUBSET {<<name, NoTime>> : name \in TTaskNames} :
    /\ tTicks < MaxTicks
    /\ tTicks' = tTicks + 1
    /\ \E s1 \in {CheckBatteries([veh |-> tVehicles, tasks |-> tTasks, torder |-> tTaskOrder, flights |-> tFlights], tVehicleOrder, 1, tTicks)} :
         \E pending \in {SortTasks(s1.tasks, SelectSeq(s1.torder, LAMBDA tid : s1.tasks[tid].status = "pending"))} :
           \E s2 \in {AssignAll(s1, tVehicleOrder, pending, 1, ok_set)} :
             /\ tVehicles' = s2.veh
             /\ tTasks' = s2.tasks
             /\ tTaskOrder' = s2.torder
             /\ tFlights' = s2.flights
    /\ UNCHANGED <<tVehicleOrder, tCalls>>
    /\ UNCHANGED notT

\* update_vehicle_status(vid, 'busy', location): a drone reports that it flies
TReportBusy == \E vid \in DOMAIN tVehicles :
    /\ tVehicles[vid].type = "drone"
    /\ \E r \in {TUpdateVehicleStatusEffect([veh |-> tVehicles, flights |-> tFlights], vid, "busy", FALSE)} :
         /\ tVehicles' = r.veh
         /\ tFlights' = r.flights
    /\ UNCHANGED <<tVehicleOrder, tTasks, tTaskOrder, tTicks, tCalls>>
    /\ UNCHANGED notT

TRNext == \/ TRegisterFleetVehicle
          \/ TReportBusy
          \/ TRunScheduler

TNext == \/ TRegisterVehicle
         \/ TAddTask
         \/ TUpdateVehicleStatus
         \/ TRunScheduler

(***************************************************************************)
(* ======================  DeliveryScheduler  ===========================  *)
(* The map planner and the flight scheduler are collaborators handed to    *)
(* the constructor: whether plan_path / schedule_flight return a route is  *)
(* an input of the operation that calls them.  DeliveryTask.created_time   *)
(* is a constant of the class and is left out of the record.               *)
(***************************************************************************)
\* ---- program constants ----
\* find_nearest_available_vehicle: vinfo['battery'] > 30.0
DBatteryThreshold == 30

\* ---- inputs ----
DPointIdSeq == <<"pickup_1", "station_1", "delivery_1">>
DPointType == [pickup_1 |-> "pickup", station_1 |-> "drone_station", delivery_1 |-> "delivery"]
DPointLocation == [pickup_1 |-> 0, station_1 |-> 1, delivery_1 |-> 2]
DVehicleIdSeq == <<"car_1", "drone_1", "car_2">>
DVehicleIds == Range(DVehicleIdSeq)
DVehicleType == [car_1 |-> "car", drone_1 |-> "drone", car_2 |-> "car"]
DVehicleHome == [car_1 |-> 0, drone_1 |-> 1, car_2 |-> 2]
DBatteries == {100, 20}
DTaskIds == {"task_1"}

\* the drone stations registered so far
DroneStations(points) == {pt \in points : DPointType[pt] = "drone_station"}

\* find_nearest_available_vehicle (None if there is none)
FindNearestAvailableVehicle(veh, order, location, vehicle_type) ==
    LET available_vehicles == SelectSeq(order, LAMBDA vid : veh[vid].type = vehicle_type /\ veh[vid].status = "idle" /\ veh[vid].battery > DBatteryThreshold)
    IN IF available_vehicles = <<>> THEN None ELSE FirstMin(available_vehicles, LAMBDA vid : CalculateDistance(veh[vid].location, location))

\* assign_first_mile_delivery; st is [veh |-> vehicles, task |-> the task],
\* path_ok tells whether plan_path returns a path
AssignFirstMileDelivery(st, order, path_ok) ==
    LET vehicle_id == FindNearestAvailableVehicle(st.veh, order, st.task.pickup_point, "car")
    IN IF vehicle_id = None \/ ~path_ok THEN st
       ELSE [veh |-> [st.veh EXCEPT ![vehicle_id].status = "busy"], task |-> [st.task EXCEPT !.assigned_car_first_mile = vehicle_id, !.status = "assigned"]]

\* assign_drone_delivery; path_ok tells whether schedule_flight returns a route
AssignDroneDelivery(st, order, path_ok) ==
    LET vehicle_id == FindNearestAvailableVehicle(st.veh, order, st.task.drone_station, "drone")
    IN IF vehicle_id = None \/ ~path_ok THEN st
       ELSE [veh |-> [st.veh EXCEPT ![vehicle_id].status = "busy"], task |-> [st.task EXCEPT !.assigned_drone = vehicle_id, !.status = "transfer_started"]]

\* assign_last_mile_delivery
AssignLastMileDelivery(st, order, path_ok) ==
    LET vehicle_id == FindNearestAvailableVehicle(st.veh, order, st.task.delivery_point, "car")
    IN IF vehicle_id = None \/ ~path_ok THEN st
       ELSE [veh |-> [st.veh EXCEPT ![vehicle_id].status = "busy"], task |-> [st.task EXCEPT !.assigned_car_last_mile = vehicle_id, !.status = "delivery_started"]]

\* the vehicles that a task names
DAssignedVehicles(task) == {task.assigned_car_first_mile, task.assigned_drone, task.assigned_car_last_mile} \ {None}

\* update_task_status as it would be if completing a stage released the
\* vehicle of that stage
UpdateTaskStatusReleasingStage(veh, order, task, new_status, path_ok) ==
    LET released == IF new_status = "pickup_complete" THEN {task.assigned_car_first_mile}
                    ELSE IF new_status = "transfer_complete" THEN {task.assigned_drone}
                    ELSE IF new_status = "completed" THEN DAssignedVehicles(task)
                    ELSE {}
        st == [veh |-> [vid \in DOMAIN veh |-> IF vid \in released THEN [veh[vid] EXCEPT !.status = "idle"] ELSE veh[vid]], task |-> [task EXCEPT !.status = new_status]]
    IN IF new_status = "pickup_complete" THEN AssignDroneDelivery(st, order, path_ok)
       ELSE IF new_status = "transfer_complete" THEN AssignLastMileDelivery(st, order, path_ok)
       ELSE st

\* update_task_status, for a task that exists
UpdateTaskStatusEffect(veh, order, task, new_status, path_ok) ==
    LET st == [veh |-> veh, task |-> [task EXCEPT !.status = new_status]]
    IN IF new_status = "pickup_complete" THEN AssignDroneDelivery(st, order, path_ok)
       ELSE IF new_status = "transfer_complete" THEN AssignLastMileDelivery(st, order, path_ok)
       ELSE IF new_status = "completed"
       THEN [st EXCEPT !.veh = [vid \in DOMAIN veh |-> IF vid \in DAssignedVehicles(task) THEN [veh[vid] EXCEPT !.status = "idle"] ELSE veh[vid]]]
       ELSE st

DInit == /\ dPoints = {}
         /\ dVehicles = <<>>
         /\ dVehicleOrder = <<>>
         /\ dTasks = <<>>

\* register_delivery_point
DRegisterDeliveryPoint ==
    /\ Cardinality(dPoints) < Len(DPointIdSeq)
    /\ dPoints' = dPoints \cup {DPointIdSeq[Cardinality(dPoints) + 1]}
    /\ UNCHANGED <<dVehicles, dVehicleOrder, dTasks>>
    /\ UNCHANGED notD

\* register_vehicle(vehicle_id, DVehicleType[vehicle_id], DVehicleHome[vehicle_id], battery):
\* the entry is stored under the id, whether or not the id is registered
\* (a key that exists keeps its place in the dict)
DoRegisterVehicle(vehicle_id, battery) ==
    /\ dVehicles' = (vehicle_id :> [type |-> DVehicleType[vehicle_id], location |-> DVehicleHome[vehicle_id], battery |-> battery, status |-> "idle"]) @@ dVehicles
    /\ dVehicleOrder' = IF vehicle_id \in Range(dVehicleOrder) THEN dVehicleOrder ELSE Append(dVehicleOrder, vehicle_id)
    /\ UNCHANGED <<dPoints, dTasks>>
    /\ UNCHANGED notD

\* callers register the next vehicle of DVehicleIdSeq, or one registered before
DRegisterVehicle == \E vehicle_id \in DVehicleIds, battery \in DBatteries :
    /\ \/ vehicle_id \in DOMAIN dVehicles
       \/ Len(dVehicleOrder) < Len(DVehicleIdSeq) /\ vehicle_id = DVehicleIdSeq[Len(dVehicleOrder) + 1]
    /\ DoRegisterVehicle(vehicle_id, battery)

\* create_delivery_task(task_id, "pickup_1", "delivery_1")
DCreateDeliveryTask == \E task_id \in DTaskIds :
    /\ task_id \notin DOMAIN dTasks
    /\ {"pickup_1", "delivery_1"} \subseteq dPoints
    /\ DroneStations(dPoints) # {}
    /\ dTasks' = (task_id :> [pickup_point |-> DPointLocation["pickup_1"], delivery_point |-> DPointLocation["delivery_1"], drone_station |-> DPointLocation[CHOOSE pt \in DroneStations(dPoints) : TRUE], status |-> "pending", assigned_car_first_mile |-> None, assigned_drone |-> None, assigned_car_last_mile |-> None]) @@ dTasks
    /\ UNCHANGED <<dPoints, dVehicles, dVehicleOrder>>
    /\ UNCHANGED notD

\* a caller runs assign_first_mile_delivery(task)
DAssignFirstMile == \E task_id \in DOMAIN dTasks, path_ok \in BOOLEAN :
    /\ \E r \in {AssignFirstMileDelivery([veh |-> dVehicles, task |-> dTasks[task_id]], dVehicleOrder, path_ok)} :
         /\ dVehicles' = r.veh
         /\ dTasks' = [dTasks EXCEPT ![task_id] = r.task]
    /\ UNCHANGED <<dPoints, dVehicleOrder>>
    /\ UNCHANGED notD

\* update_task_status(task_id, new_status)
DoUpdateTaskStatus(task_id, new_status, path_ok) ==
    /\ task_id \in DOMAIN dTasks
    /\ \E r \in {UpdateTaskStatusEffect(dVehicles, dVehicleOrder, dTasks[task_id], new_status, path_ok)} :
         /\ dVehicles' = r.veh
         /\ dTasks' = [dTasks EXCEPT ![task_id] = r.task]
    /\ UNCHANGED <<dPoints, dVehicleOrder>>
    /\ UNCHANGED notD

DUpdateTaskStatus == \E task_id \in DOMAIN dTasks, new_status \in TaskStatuses, path_ok \in BOOLEAN : DoUpdateTaskStatus(task_id, new_status, path_ok)

\* update_vehicle_battery
DUpdateVehicleBattery == \E vid \in DOMAIN dVehicles, battery \in DBatteries :
    /\ dVehicles' = [dVehicles EXCEPT ![vid].battery = battery]
    /\ UNCHANGED <<dPoints, dVehicleOrder, dTasks>>
    /\ UNCHANGED notD

DNext == \/ DRegisterDeliveryPoint
         \/ DRegisterVehicle
         \/ DCreateDeliveryTask
         \/ DAssignFirstMile
         \/ DUpdateTaskStatus
         \/ DUpdateVehicleBattery

(***************************************************************************)
(* ======================  master_computer  =============================  *)
(* TaskManager, VehicleManager and MasterScheduler.  A member of an enum   *)
(* is written by its name ("IDLE", "PENDING", "CAR"), a Python str by its  *)
(* text ("idle", "busy", "car"): the two never compare equal, as in the    *)
(* code.  The task id 'TASK_<n>' is the number n, the vehicle id           *)
(* '<TYPE>_<n>' the pair <<TYPE, n>>.                                      *)
(***************************************************************************)
\* ---- bounds of the model ----
\* tasks created / vehicles registered in one run
MaxTasks == 2
MaxVehicles == 2

\* ---- inputs ----
MVehicleTypes == {"CAR", "DRONE"}
MVehicleMaxPayload == [CAR |-> 20, DRONE |-> 5]
MTaskWeight == 2
\* the deadlines that callers of create_task give (None, or 10 s after the start)
MDeadlines == {NoTime, 10}
\* the error messages that callers of update_task_status give
MErrorMessages == {None, "error"}
\* the travel time, in seconds, that calculate_task_cost derives from the map
MEstimatedTime == 5
MTaskStatuses == {"PENDING", "ASSIGNED", "PICKUP", "DELIVERING", "COMPLETED", "FAILED", "CANCELLED"}

\* None in Task.assigned_vehicle / in Vehicle.current_task
NoVehicle == <<>>
NoTask == 0

\* float('inf')
Inf == 1000000

\* Task.__init__
MNewTask(deadline) == [status |-> "PENDING", assigned_vehicle |-> NoVehicle, weight |-> MTaskWeight, deadline |-> deadline, error_message |-> None]

\* Vehicle.__init__ followed by a successful connect()
MNewVehicle(vehicle_type) == [type |-> vehicle_type, status |-> "IDLE", current_task |-> NoTask, max_payload |-> MVehicleMaxPayload[vehicle_type], websocket |-> TRUE]

\* get_pending_tasks / get_completed_tasks, in dict order
TasksWithStatus(tasks, order, status) == SelectSeq(order, LAMBDA tid : tasks[tid].status = status)

\* get_available_vehicles (the tasks of the model require no capability)
GetAvailableVehicles(veh, order) == SelectSeq(order, LAMBDA vid : veh[vid].status = "IDLE")

\* calculate_task_cost: the deadline test and the payload test; the distance,
\* time and energy terms come from the map and are the same for all vehicles
MCalculateTaskCost(veh, task, vid) ==
    IF task.deadline # NoTime /\ MEstimatedTime > task.deadline - now THEN Inf
    ELSE IF task.weight > veh[vid].max_payload THEN Inf
    ELSE 0

\* select_best_vehicle: the first vehicle of least cost below infinity among
\* those whose type matches the stage (vehicle.type is compared with a str)
SelectBestVehicle(veh, task, available) ==
    LET matching == SelectSeq(available, LAMBDA vid : /\ ~(task.status = "PENDING" /\ veh[vid].type # "car")
                                                       /\ ~(task.status = "PICKUP" /\ veh[vid].type # "drone")
                                                       /\ ~(task.status = "DELIVERING" /\ veh[vid].type # "car")
                                                       /\ MCalculateTaskCost(veh, task, vid) < Inf)
    IN IF matching = <<>> THEN NoVehicle ELSE FirstMin(matching, LAMBDA vid : MCalculateTaskCost(veh, task, vid))

\* MasterScheduler.assign_task; st is [tasks |-> tasks, veh |-> vehicles].
\* routes_ok tells whether plan_delivery_route returns routes.  After the
\* task and the vehicle are updated, the call of map_manager.plan_path lacks
\* its vehicle_type argument and raises (and Vehicle.assign_task would
\* subscript the Task object): no command is sent, the handler returns False
\* and undoes nothing.
MAssignTaskEffect(st, tid, vid, routes_ok) ==
    IF ~routes_ok THEN st
    ELSE LET new_status == IF st.veh[vid].type = "car"
                           THEN (IF st.tasks[tid].status = "PENDING" THEN "PICKUP" ELSE "DELIVERING")
                           ELSE "DELIVERING"
         IN [tasks |-> [st.tasks EXCEPT ![tid].status = new_status, ![tid].assigned_vehicle = vid],
             veh |-> [st.veh EXCEPT ![vid].status = "busy", ![vid].current_task = tid]]

\* schedule_loop: the loop over the pending tasks, from the i-th on
RECURSIVE ScheduleTasks(_, _, _, _, _)
ScheduleTasks(st, vorder, pending, i, routes_ok) ==
    IF i > Len(pending) THEN st
    ELSE CHOOSE r \in {ScheduleTasks(s, vorder, pending, i + 1, routes_ok) : s \in
           {LET best_vehicle == SelectBestVehicle(st.veh, st.tasks[pending[i]], GetAvailableVehicles(st.veh, vorder))
            IN IF best_vehicle = NoVehicle THEN st ELSE MAssignTaskEffect(st, pending[i], best_vehicle, routes_ok)}} : TRUE

MInit == /\ mTasks = <<>>
         /\ mTaskOrder = <<>>
         /\ mVehicles = <<>>
         /\ mVehicleOrder = <<>>
         /\ mCalls = 0

\* TaskManager.create_task: the id is 'TASK_<len(tasks) + 1>'
MCreateTask ==
    /\ Len(mTaskOrder) < MaxTasks
    /\ \E task_id \in {Len(mTaskOrder) + 1}, deadline \in MDeadlines :
         /\ mTasks' = (task_id :> MNewTask(deadline)) @@ mTasks
         /\ mTaskOrder' = IF task_id \in Range(mTaskOrder) THEN mTaskOrder ELSE Append(mTaskOrder, task_id)
    /\ UNCHANGED <<mVehicles, mVehicleOrder, mCalls>>
    /\ UNCHANGED notM

\* TaskManager.remove_task
MRemoveTask == \E task_id \in DOMAIN mTasks :
    /\ mCalls < MaxCalls
    /\ mCalls' = mCalls + 1
    /\ mTasks' = [t \in DOMAIN mTasks \ {task_id} |-> mTasks[t]]
    /\ mTaskOrder' = SelectSeq(mTaskOrder, LAMBDA t : t # task_id)
    /\ UNCHANGED <<mVehicles, mVehicleOrder>>
    /\ UNCHANGED notM

\* TaskManager.update_task_status
MUpdateTaskStatus == \E task_id \in DOMAIN mTasks, status \in MTaskStatuses, error_message \in MErrorMessages :
    /\ mCalls < MaxCalls
    /\ mCalls' = mCalls + 1
    /\ mTasks' = [mTasks EXCEPT ![task_id].status = status, ![task_id].error_message = IF status = "FAILED" THEN error_message ELSE @]
    /\ UNCHANGED <<mTaskOrder, mVehicles, mVehicleOrder>>
    /\ UNCHANGED notM

\* TaskManager.cancel_task(task_id)
DoCancelTask(task_id) ==
    /\ task_id \in DOMAIN mTasks
    /\ mTasks' = IF mTasks[task_id].status = "COMPLETED" THEN mTasks ELSE [mTasks EXCEPT ![task_id].status = "CANCELLED"]
    /\ UNCHANGED <<mTaskOrder, mVehicles, mVehicleOrder, mCalls>>
    /\ UNCHANGED notM

MCancelTask == \E task_id \in DOMAIN mTasks : DoCancelTask(task_id)

\* VehicleManager.register_vehicle: the id is '<TYPE>_<len(vehicles) + 1>';
\* connect_ok tells whether Vehicle.connect succeeds
MRegisterVehicle == \E vehicle_type \in MVehicleTypes, connect_ok \in BOOLEAN :
    /\ Len(mVehicleOrder) < MaxVehicles
    /\ IF connect_ok
       THEN \E vehicle_id \in {<<vehicle_type, Len(mVehicleOrder) + 1>>} :
              /\ mVehicles' = (vehicle_id :> MNewVehicle(vehicle_type)) @@ mVehicles
              /\ mVehicleOrder' = Append(mVehicleOrder, vehicle_id)
       ELSE UNCHANGED <<mVehicles, mVehicleOrder>>
    /\ UNCHANGED <<mTasks, mTaskOrder, mCalls>>
    /\ UNCHANGED notM

\* a caller runs MasterScheduler.assign_task(task, vehicle)
DoAssignTask(task_id, vehicle_id, routes_ok) ==
    /\ task_id \in DOMAIN mTasks
    /\ vehicle_id \in DOMAIN mVehicles
    /\ \E r \in {MAssignTaskEffect([tasks |-> mTasks, veh |-> mVehicles], task_id, vehicle_id, routes_ok)} :
         /\ mTasks' = r.tasks
         /\ mVehicles' = r.veh
    /\ UNCHANGED <<mTaskOrder, mVehicleOrder, mCalls>>
    /\ UNCHANGED notM

MAssignTask == \E task_id \in DOMAIN mTasks, vehicle_id \in DOMAIN mVehicles, routes_ok \in BOOLEAN : DoAssignTask(task_id, vehicle_id, routes_ok)

\* schedule_loop: one iteration.  The call self.task_manager.update_task_status()
\* that follows the loop over the tasks lacks its arguments and raises, so
\* the iteration ends there, before check_completed_tasks.
MScheduleLoop == \E routes_ok \in BOOLEAN :
    /\ \E r \in {ScheduleTasks([tasks |-> mTasks, veh |-> mVehicles], mVehicleOrder, TasksWithStatus(mTasks, mTaskOrder, "PENDING"), 1, routes_ok)} :
         /\ mTasks' = r.tasks
         /\ mVehicles' = r.veh
    /\ UNCHANGED <<mTaskOrder, mVehicleOrder, mCalls>>
    /\ UNCHANGED notM

\* check_completed_tasks.  update_delivery_status reads task.drone_station,
\* which Task does not have, and raises: the loop ends after the vehicle of
\* the first completed task is released.
MCheckCompletedTasks ==
    /\ \E completed_tasks \in {TasksWithStatus(mTasks, mTaskOrder, "COMPLETED")} :
         IF completed_tasks # <<>> /\ mTasks[completed_tasks[1]].assigned_vehicle \in DOMAIN mVehicles
         THEN mVehicles' = [mVehicles EXCEPT ![mTasks[completed_tasks[1]].assigned_vehicle].status = "idle", ![mTasks[completed_tasks[1]].assigned_vehicle].current_task = NoTask]
         ELSE UNCHANGED mVehicles
    /\ UNCHANGED <<mTasks, mTaskOrder, mVehicleOrder, mCalls>>
    /\ UNCHANGED notM

\* monitor_loop: one iteration (VehicleManager.update_vehicle_status; the rest
\* of the iteration, check_anomalies included, logs: a task past its deadline
\* gets a warning).  failing: the vehicles whose get_status command fails
MMonitorLoop == \E failing \in SUBSET DOMAIN mVehicles :
    /\ mVehicles' = [vid \in DOMAIN mVehicles |-> IF ~mVehicles[vid].websocket THEN [mVehicles[vid] EXCEPT !.status = "OFFLINE"]
                                                   ELSE IF vid \in failing THEN [mVehicles[vid] EXCEPT !.status = "ERROR"]
                                                   ELSE mVehicles[vid]]
    /\ UNCHANGED <<mTasks, mTaskOrder, mVehicleOrder, mCalls>>
    /\ UNCHANGED notM

\* heartbeat_loop: one iteration.  failing: the vehicles whose ping fails
MHeartbeat == \E failing \in SUBSET DOMAIN mVehicles :
    /\ mVehicles' = [vid \in DOMAIN mVehicles |-> IF mVehicles[vid].websocket /\ vid \in failing THEN [mVehicles[vid] EXCEPT !.status = "OFFLINE", !.websocket = FALSE] ELSE mVehicles[vid]]
    /\ UNCHANGED <<mTasks, mTaskOrder, mVehicleOrder, mCalls>>
    /\ UNCHANGED notM

\* (AdvanceTime is the clock of datetime.now(), which calculate_task_cost and
\* check_anomalies read)
MNext == \/ AdvanceTime
         \/ MCreateTask
         \/ MRemoveTask
         \/ MUpdateTaskStatus
         \/ MCancelTask
         \/ MRegisterVehicle
         \/ MAssignTask
         \/ MScheduleLoop
         \/ MCheckCompletedTasks
         \/ MMonitorLoop
         \/ MHeartbeat

(***************************************************************************)
(* ======================  MapManager  ==================================  *)
(* Positions are (lat, lon) in units of 0.00001 degree, edge weights in    *)
(* tenths of a second.                                                     *)
(***************************************************************************)
\* ---- inputs ----
\* the ends of the roads of the traffic layer
KNodeA == <<0, 0>>
KNodeB == <<0, 100>>
KNodeC == <<100, 100>>
\* the roads that a traffic layer can hold, and the traffic layers loaded
KRoadChoices == {[start |-> r[1], end |-> r[2], speed_limit |-> sl] : r \in {<<KNodeA, KNodeB>>, <<KNodeB, KNodeC>>, <<KNodeA, KNodeC>>}, sl \in {5, 10}}
KRoadSets == {rs \in SUBSET KRoadChoices : \A r1, r2 \in rs : r1.start = r2.start /\ r1.end = r2.end => r1 = r2}
\* the traffic layers loaded where paths are cached
KTrafficLayers == {{[start |-> KNodeA, end |-> KNodeB, speed_limit |-> 10], [start |-> KNodeB, end |-> KNodeC, speed_limit |-> 10]},
                   {[start |-> KNodeA, end |-> KNodeB, speed_limit |-> 10], [start |-> KNodeB, end |-> KNodeC, speed_limit |-> 10], [start |-> KNodeA, end |-> KNodeC, speed_limit |-> 5]}}
\* the points that callers plan between
KPoints == {<<0, 10>>, <<100, 90>>, <<0, 90>>}
KEndPoints == {<<0, 10>>, <<100, 90>>}
KPathTypes == {"road", "air"}
\* the obstacles and restricted areas that callers add and remove
KObstacleAt == [obs_1 |-> <<0, 50>>, obs_2 |-> <<500, 500>>]
KAreaPolygon == [area_1 |-> <<(<<400, 400>>), (<<400, 600>>), (<<600, 600>>), (<<600, 400>>)>>]

\* "Infinity" of the distance dictionary
KInf == 1000000

\* _calculate_distance(lat1, lon1, lat2, lon2), in decimetres
KCalculateDistance(p, q) == ISqrt(GroundDistanceSq(p, q))

\* _calculate_edge_weight
CalculateEdgeWeight(node1, node2, speed_limit) == KCalculateDistance(node1, node2) \div speed_limit

\* the graph that _plan_road_path builds: node -> set of (neighbor, weight, speed_limit)
BuildGraph(roads) ==
    [n \in {r.start : r \in roads} \cup {r.end : r \in roads} |->
        {<<r.end, CalculateEdgeWeight(r.start, r.end, r.speed_limit), r.speed_limit>> : r \in {x \in roads : x.start = n}}
        \cup {<<r.start, CalculateEdgeWeight(r.start, r.end, r.speed_limit), r.speed_limit>> : r \in {x \in roads : x.end = n}}]

\* the order of the tuples (distance, node) in the heap
HeapLeq(e, f) == \/ e[1] < f[1]
                 \/ e[1] = f[1] /\ (e[2][1] < f[2][1] \/ (e[2][1] = f[2][1] /\ e[2][2] <= f[2][2]))

\* _dijkstra, the `while pq` loop: st holds distances, predecessors, pq and visited
RECURSIVE DijkstraLoop(_, _, _)
DijkstraLoop(graph, end, st) ==
    IF st.pq = {} THEN st
    ELSE LET top == CHOOSE e \in st.pq : \A f \in st.pq : HeapLeq(e, f)
             popped == [st EXCEPT !.pq = @ \ {top}]
         IN IF top[2] = end THEN popped
            ELSE IF top[2] \in st.visited THEN DijkstraLoop(graph, end, popped)
            ELSE LET visited == st.visited \cup {top[2]}
                     \* for every neighbour, the least distance through the current node
                     through == [n \in DOMAIN graph |-> IF \E e \in graph[top[2]] : e[1] = n
                                                        THEN top[1] + (CHOOSE w \in {e[2] : e \in {x \in graph[top[2]] : x[1] = n}} : \A e \in graph[top[2]] : e[1] = n => w <= e[2])
                                                        ELSE KInf]
                     better == {n \in DOMAIN graph : n \notin visited /\ through[n] < st.distances[n]}
                 IN DijkstraLoop(graph, end, [distances |-> [n \in DOMAIN graph |-> IF n \in better THEN through[n] ELSE st.distances[n]],
                                              predecessors |-> [n \in DOMAIN graph |-> IF n \in better THEN top[2] ELSE st.predecessors[n]],
                                              pq |-> popped.pq \cup {<<through[n], n>> : n \in better},
                                              visited |-> visited])

\* _dijkstra, the walk back along the predecessors
RECURSIVE WalkBack(_, _)
WalkBack(predecessors, node) == IF node = None THEN <<>> ELSE Append(WalkBack(predecessors, predecessors[node]), node)

\* _dijkstra: the empty sequence for None
Dijkstra(graph, start, end) ==
    IF start \notin DOMAIN graph \/ end \notin DOMAIN graph THEN <<>>
    ELSE LET st == DijkstraLoop(graph, end, [distances |-> [n \in DOMAIN graph |-> IF n = start THEN 0 ELSE KInf],
                                             predecessors |-> [n \in DOMAIN graph |-> None],
                                             pq |-> {<<0, start>>},
                                             visited |-> {}])
         IN IF st.predecessors[end] = None THEN <<>> ELSE WalkBack(st.predecessors, end)

\* _find_nearest_node: None for an empty graph
FindNearestNode(point, graph) ==
    IF DOMAIN graph = {} THEN None
    ELSE CHOOSE n \in DOMAIN graph : \A o \in DOMAIN graph : KCalculateDistance(point, n) <= KCalculateDistance(point, o)

\* _plan_road_path: the points of the path (start, the nodes, end); the empty sequence for None
PlanRoadPath(roads, start, end) ==
    IF roads = {} THEN <<>>
    ELSE LET graph == BuildGraph(roads)
             path_nodes == Dijkstra(graph, FindNearestNode(start, graph), FindNearestNode(end, graph))
         IN IF path_nodes = <<>> THEN <<>> ELSE <<start>> \o path_nodes \o <<end>>

\* _point_in_polygon
RECURSIVE PointInPolygonFrom(_, _, _, _, _, _)
PointInPolygonFrom(lat, lon, polygon, i, p1, inside) ==
    IF i > Len(polygon) THEN inside
    ELSE LET p2 == polygon[(i % Len(polygon)) + 1]
             crosses == /\ lon > (IF p1[2] < p2[2] THEN p1[2] ELSE p2[2])
                        /\ lon <= Max2(p1[2], p2[2])
                        /\ lat <= Max2(p1[1], p2[1])
                        /\ p1[2] # p2[2]
                        /\ (p1[1] = p2[1] \/ lat * (p2[2] - p1[2]) * (IF p2[2] > p1[2] THEN 1 ELSE -1) <= ((lon - p1[2]) * (p2[1] - p1[1]) + p1[1] * (p2[2] - p1[2])) * (IF p2[2] > p1[2] THEN 1 ELSE -1))
         IN PointInPolygonFrom(lat, lon, polygon, i + 1, p2, IF crosses THEN ~inside ELSE inside)

PointInPolygon(lat, lon, polygon) == PointInPolygonFrom(lat, lon, polygon, 0, polygon[1], FALSE)

\* is_point_restricted
IsPointRestricted(restricted, location) == \E a \in restricted : PointInPolygon(location[1], location[2], KAreaPolygon[a])

\* _is_point_near_obstacle: nearer than 0.001 degree
IsPointNearObstacle(point, obstacle) == (point[1] - obstacle[1]) * (point[1] - obstacle[1]) + (point[2] - obstacle[2]) * (point[2] - obstacle[2]) < 100 * 100

\* _is_path_valid
IsPathValid(path, obstacles, restricted) ==
    /\ path # <<>>
    /\ \A i \in DOMAIN path : /\ \A o \in obstacles : ~IsPointNearObstacle(path[i], KObstacleAt[o])
                              /\ ~IsPointRestricted(restricted, path[i])

KInit == /\ kRoads = {}
         /\ kObstacles = {}
         /\ kRestricted = {}
         /\ kCache = <<>>
         /\ kReturn = [how |-> "none", start |-> <<0, 0>>, end |-> <<0, 0>>, path |-> <<>>]

\* deserialize / update_map_data put a traffic layer in place
DoLoadRoads(roads) ==
    /\ kRoads = {}
    /\ roads # {}
    /\ kRoads' = roads
    /\ UNCHANGED <<kObstacles, kRestricted, kCache, kReturn>>
    /\ UNCHANGED notK

KLoadRoads == \E roads \in KTrafficLayers : DoLoadRoads(roads)

KLoadAnyRoads == \E roads \in KRoadSets : DoLoadRoads(roads)

\* _plan_road_path(start, end, 'car', ...), as plan_path and
\* _plan_hybrid_path call it
KPlanRoadPath == \E start \in KPoints, end \in KPoints :
    /\ kReturn' = [how |-> "road", start |-> start, end |-> end, path |-> PlanRoadPath(kRoads, start, end)]
    /\ UNCHANGED <<kRoads, kObstacles, kRestricted, kCache>>
    /\ UNCHANGED notK

\* add_obstacle
KAddObstacle == \E o \in DOMAIN KObstacleAt :
    /\ kObstacles' = kObstacles \cup {o}
    /\ UNCHANGED <<kRoads, kRestricted, kCache, kReturn>>
    /\ UNCHANGED notK

\* remove_obstacle
KRemoveObstacle == \E o \in DOMAIN KObstacleAt :
    /\ kObstacles' = kObstacles \ {o}
    /\ UNCHANGED <<kRoads, kRestricted, kCache, kReturn>>
    /\ UNCHANGED notK

\* add_restricted_area
KAddRestrictedArea == \E a \in DOMAIN KAreaPolygon :
    /\ kRestricted' = kRestricted \cup {a}
    /\ UNCHANGED <<kRoads, kObstacles, kCache, kReturn>>
    /\ UNCHANGED notK

\* remove_restricted_area
KRemoveRestrictedArea == \E a \in DOMAIN KAreaPolygon :
    /\ kRestricted' = kRestricted \ {a}
    /\ UNCHANGED <<kRoads, kObstacles, kCache, kReturn>>
    /\ UNCHANGED notK

\* plan_path(start, end, path_type, 'car').  kReturn.how is "restricted" for
\* the `return None` of the restricted test, "cached" for the return of a
\* cached path, "planned" for the return at the end and "raised" for the
\* TypeError of the _astar call in _plan_air_path, which passes drone_id to
\* a function that has no such parameter.
DoPlanPath(start, end, path_type) ==
    /\ \E cache_key \in {<<start, end, path_type, "car">>} :
        IF IsPointRestricted(kRestricted, start) \/ IsPointRestricted(kRestricted, end)
        THEN /\ kReturn' = [how |-> "restricted", start |-> start, end |-> end, path |-> <<>>]
             /\ UNCHANGED kCache
        ELSE IF cache_key \in DOMAIN kCache /\ IsPathValid(kCache[cache_key].path, kObstacles, kRestricted)
        THEN /\ kReturn' = [how |-> "cached", start |-> start, end |-> end, path |-> kCache[cache_key].path]
             /\ UNCHANGED kCache
        ELSE IF path_type = "air"
        THEN /\ kReturn' = [how |-> "raised", start |-> start, end |-> end, path |-> <<>>]
             /\ UNCHANGED kCache
        ELSE \E path \in {PlanRoadPath(kRoads, start, end)} :
             /\ kReturn' = [how |-> "planned", start |-> start, end |-> end, path |-> path]
             /\ IF path # <<>>
                THEN kCache' = (cache_key :> [path |-> path, obstacles |-> kObstacles, restricted |-> kRestricted]) @@ kCache
                ELSE UNCHANGED kCache
    /\ UNCHANGED <<kRoads, kObstacles, kRestricted>>
    /\ UNCHANGED notK

KPlanPath == \E start \in KEndPoints, end \in KEndPoints, path_type \in KPathTypes : DoPlanPath(start, end, path_type)

KNext == \/ KLoadRoads
         \/ KAddObstacle
         \/ KRemoveObstacle
         \/ KAddRestrictedArea
         \/ KRemoveRestrictedArea
         \/ KPlanPath

KDNext == \/ KLoadAnyRoads
          \/ KPlanRoadPath

(***************************************************************************)
(* ======================  MapPlanner  ==================================  *)
(* Positions are (lat, lon) in units of 0.00001 degree, elevations in      *)
(* metres, distances in decimetres.                                        *)
(***************************************************************************)
\* ---- program constants ----
\* self.grid_size = 0.001 degree
PGridSize == 100
MaxElevation == 120
MinElevation == 20
ElevationStep == 10

\* ---- inputs ----
\* the terrain that add_terrain has stored, in the order of the calls: a
\* plateau 100 m high with ground above the flight ceiling on all sides
PTerrainOrder == <<(<<0, 0>>), (<<200, 0>>), (<<-200, 0>>), (<<0, 200>>), (<<0, -200>>)>>
PTerrainMap == [p \in Range(PTerrainOrder) |-> IF p = <<0, 0>> THEN 100 ELSE 200]
\* the obstacles that add_obstacle can store: (lat, lon, radius, height)
PObstacleAt == [obs_1 |-> <<0, 0, 2000, 120>>, obs_2 |-> <<100, 100, 500, 105>>, obs_3 |-> <<-100, 0, 500, 120>>]
\* the points that callers plan between
PStarts == {<<0, 0, 100>>, <<100, -100, 110>>}
PGoals == {<<100, 100, 100>>, <<-100, 0, 120>>, <<-100, -100, 110>>}

\* get_terrain_elevation, for a terrain map that is not empty: the
\* elevation stored for the point, or else that of the nearest stored
\* point, the first stored one among the nearest
GetTerrainElevation(terrain, lat, lon) ==
    IF <<lat, lon>> \in DOMAIN terrain THEN terrain[<<lat, lon>>]
    ELSE LET known == {i \in DOMAIN PTerrainOrder : PTerrainOrder[i] \in DOMAIN terrain}
             nearest == CHOOSE i \in known : \A j \in known :
                            \/ GroundDistanceSq(<<lat, lon>>, PTerrainOrder[i]) < GroundDistanceSq(<<lat, lon>>, PTerrainOrder[j])
                            \/ GroundDistanceSq(<<lat, lon>>, PTerrainOrder[i]) = GroundDistanceSq(<<lat, lon>>, PTerrainOrder[j]) /\ i <= j
         IN terrain[PTerrainOrder[nearest]]

\* check_collision
CheckCollision(terrain, obstacles, point) ==
    \/ point[3] < MinElevation \/ point[3] > MaxElevation
    \/ point[3] < GetTerrainElevation(terrain, point[1], point[2])
    \/ \E o \in obstacles : /\ GroundDistanceSq(<<PObstacleAt[o][1], PObstacleAt[o][2]>>, <<point[1], point[2]>>) <= PObstacleAt[o][3] * PObstacleAt[o][3]
                            /\ point[3] <= PObstacleAt[o][4]

\* calculate_3d_distance
Calculate3dDistance(p, q) == ISqrt(GroundDistanceSq(p, q) + (10 * (p[3] - q[3])) * (10 * (p[3] - q[3])))

\* get_neighbors_3d
GetNeighbors3d(terrain, obstacles, point) ==
    {n \in {<<point[1] + dlat, point[2] + dlon, point[3] + delev>> : dlat \in {-PGridSize, 0, PGridSize}, dlon \in {-PGridSize, 0, PGridSize}, delev \in {-ElevationStep, 0, ElevationStep}} :
        n # point /\ ~CheckCollision(terrain, obstacles, n)}

\* the order of the entries (priority, point) of the frontier
FrontierLeq(e, f) ==
    \/ e[1] < f[1]
    \/ e[1] = f[1] /\ \/ e[2][1] < f[2][1]
                      \/ e[2][1] = f[2][1] /\ e[2][2] < f[2][2]
                      \/ e[2][1] = f[2][1] /\ e[2][2] = f[2][2] /\ e[2][3] <= f[2][3]

\* plan_drone_path, the `while not frontier.empty()` loop: st holds
\* frontier, came_from and cost_so_far
RECURSIVE PlanDronePathLoop(_, _, _, _)
PlanDronePathLoop(terrain, obstacles, goal_3d, st) ==
    IF st.frontier = {} THEN st
    ELSE LET top == CHOOSE e \in st.frontier : \A f \in st.frontier : FrontierLeq(e, f)
             current == top[2]
             rest == st.frontier \ {top}
         IN IF current = goal_3d THEN [st EXCEPT !.frontier = rest]
            ELSE LET new_cost == [n \in GetNeighbors3d(terrain, obstacles, current) |-> st.cost_so_far[current] + Calculate3dDistance(current, n)]
                     better == {n \in DOMAIN new_cost : n \notin DOMAIN st.cost_so_far \/ new_cost[n] < st.cost_so_far[n]}
                 IN PlanDronePathLoop(terrain, obstacles, goal_3d,
                        [frontier |-> rest \cup {<<new_cost[n] + Calculate3dDistance(n, goal_3d), n>> : n \in better},
                         came_from |-> [n \in DOMAIN st.came_from \cup better |-> IF n \in better THEN current ELSE st.came_from[n]],
                         cost_so_far |-> [n \in DOMAIN st.cost_so_far \cup better |-> IF n \in better THEN new_cost[n] ELSE st.cost_so_far[n]]])

\* plan_drone_path, the walk back from the goal: came_from.get(current) is
\* None for a point that the search never reached
RECURSIVE PathBack(_, _)
PathBack(came_from, current) ==
    IF current \notin DOMAIN came_from \/ came_from[current] = <<>> THEN <<current>>
    ELSE Append(PathBack(came_from, came_from[current]), current)

\* plan_drone_path, for a terrain map that is not empty (None in came_from is <<>>)
PlanDronePath(terrain, obstacles, start_3d, goal_3d) ==
    PathBack(PlanDronePathLoop(terrain, obstacles, goal_3d,
                               [frontier |-> {<<0, start_3d>>}, came_from |-> (start_3d :> <<>>), cost_so_far |-> (start_3d :> 0)]).came_from,
             goal_3d)

PInit == /\ pTerrain = [p \in {} |-> 0]
         /\ pObstacles = {}
         /\ pReturn = [how |-> "none", start |-> <<0, 0, 0>>, goal |-> <<0, 0, 0>>, path |-> <<>>]

\* the add_terrain calls that store the terrain
PAddTerrain ==
    /\ DOMAIN pTerrain = {}
    /\ pTerrain' = PTerrainMap
    /\ UNCHANGED <<pObstacles, pReturn>>
    /\ UNCHANGED notP

\* add_obstacle
PAddObstacle == \E o \in DOMAIN PObstacleAt :
    /\ pObstacles' = pObstacles \cup {o}
    /\ UNCHANGED <<pTerrain, pReturn>>
    /\ UNCHANGED notP

\* plan_drone_path(start, goal, start_elevation, goal_elevation).
\* pReturn.how is "raised" for the ValueError of min() over an empty
\* terrain_map in get_terrain_elevation, "returned" for the return.
DoPlanDronePath(start_3d, goal_3d) ==
    /\ IF DOMAIN pTerrain = {}
       THEN pReturn' = [how |-> "raised", start |-> start_3d, goal |-> goal_3d, path |-> <<>>]
       ELSE pReturn' = [how |-> "returned", start |-> start_3d, goal |-> goal_3d, path |-> PlanDronePath(pTerrain, pObstacles, start_3d, goal_3d)]
    /\ UNCHANGED <<pTerrain, pObstacles>>
    /\ UNCHANGED notP

PPlanDronePath == \E start_3d \in PStarts, goal_3d \in PGoals : DoPlanDronePath(start_3d, goal_3d)

PNext == \/ PAddTerrain
         \/ PAddObstacle
         \/ PPlanDronePath

(***************************************************************************)
(* Specifications                                                          *)
(***************************************************************************)
Init == /\ UInit
        /\ UThreadsInit
        /\ UStoreInit
        /\ FInit
        /\ TInit
        /\ DInit
        /\ MInit
        /\ KInit
        /\ PInit

SpecU == Init /\ [][UNext]_vars

\* the scheduling thread and the monitoring thread both run `while True`
FairSpecU == SpecU /\ WF_vars(USchedulerTick) /\ WF_vars(UMonitorTick)

\* the scheduler thread and a telemetry thread interleave
SpecUC == Init /\ [][UCNext]_vars

\* the scheduler thread runs `while True`: it takes every step it can
FairSpecUC == SpecUC /\ WF_vars(SchedGet) /\ WF_vars(SchedFind) /\ WF_vars(SchedMark) /\ WF_vars(SchedReturn)

\* UnifiedScheduler up to a save_state and the load_state that reads it back
SpecUQ == Init /\ [][UQNext]_vars

SpecUO == Init /\ [][UONext]_vars

SpecUP == Init /\ [][UPNext]_vars

SpecF == Init /\ [][FNext]_vars

\* the callers of schedule_flight run in threads of their own
SpecFZ == Init /\ [][FZNext]_vars

SpecFC == Init /\ [][FCNext]_vars

SpecT == Init /\ [][TNext]_vars

SpecTR == Init /\ [][TRNext]_vars

\* UnifiedScheduler and TaskScheduler are orchestrators of their own: a
\* process builds one of them, and its steps are that scheduler's.  Of
\* UnifiedScheduler the steps kept are those that fill the registry, assign
\* tasks and report telemetry.
UTNext == \/ TInit /\ (AdvanceTime \/ URegisterVehicle \/ UCreateTask \/ USchedulerTick \/ UUpdateVehicleStatus)
          \/ UInit /\ TNext

SpecUT == Init /\ [][UTNext]_vars

SpecD == Init /\ [][DNext]_vars

\* DeliveryScheduler runs no loop of its own; its callers keep registering
\* vehicles and reporting their battery
FairSpecD == SpecD /\ WF_vars(DRegisterVehicle) /\ WF_vars(DUpdateVehicleBattery)

SpecK == Init /\ [][KNext]_vars

SpecKD == Init /\ [][KDNext]_vars

SpecP == Init /\ [][PNext]_vars

SpecM == Init /\ [][MNext]_vars

\* schedule_loop and monitor_loop both run `while self.running`
FairSpecM == SpecM /\ WF_vars(MScheduleLoop) /\ WF_vars(MMonitorLoop)

(***************************************************************************)
(* Properties of UnifiedScheduler                                          *)
(***************************************************************************)
TerminalStatuses == {"completed", "failed", "cancelled"}

\* the vehicle ids that appear in task.assigned_vehicles
AssignedVehiclesOf(task) == {task.assigned_vehicles[st] : st \in DOMAIN task.assigned_vehicles}

\* the tasks that are not terminal and name vehicle vid as an assigned vehicle
ULiveTasksOf(vid) == {tid \in DOMAIN uTasks : uTasks[tid].status \notin TerminalStatuses /\ vid \in AssignedVehiclesOf(uTasks[tid])}

UOnlyCapable(tid, vid) ==
    /\ tid \in DOMAIN uTasks
    /\ vid \in DOMAIN uVehicles
    /\ uTasks[tid].status = "pending"
    /\ Suitable(uVehicles, uTasks[tid], vid)
    /\ \A w \in DOMAIN uVehicles \ {vid} : ~(uTasks[tid].special_requirements \subseteq uVehicles[w].capabilities)

UIsAssigned(tid) == tid \in DOMAIN uTasks /\ uTasks[tid].status = "assigned"

\* task tid is still Pending and the scheduler has given it vehicle vid
UHolds(tid, vid) == tid \in DOMAIN uTasks /\ uTasks[tid].status = "pending" /\ vid \in AssignedVehiclesOf(uTasks[tid])

\* C4 (as claimed): a Pending task whose requirements are met by exactly one
\* vehicle, idle and with enough battery and payload capacity, is eventually
\* Assigned by the scheduling loop (unless the task stops being Pending for
\* another reason, or the vehicle stops qualifying before the scheduler has
\* given it to the task).
C4_EventuallyAssigned == UOnlyCapable("T1", "DRONE_1") ~> ~(UOnlyCapable("T1", "DRONE_1") \/ UHolds("T1", "DRONE_1"))

\* some registered idle vehicle has the capabilities task tid requires
UHasIdleCapable(tid) == tid \in DOMAIN uTasks /\ \E vid \in DOMAIN uVehicles : uVehicles[vid].status = "idle" /\ uTasks[tid].special_requirements \subseteq uVehicles[vid].capabilities

UUnservable(tid) == tid \in DOMAIN uTasks /\ uTasks[tid].status = "pending" /\ ~UHasIdleCapable(tid)

UIsFailed(tid) == tid \in DOMAIN uTasks /\ uTasks[tid].status = "failed"

\* C5 (as claimed): a Pending task that no idle vehicle can serve does not
\* stay Pending for ever: unless a capable idle vehicle appears, the retries
\* run out and it becomes Failed.
C5_RetryLimitFails == UUnservable("T1") ~> (UIsFailed("T1") \/ UHasIdleCapable("T1"))

\* the deadline of task tid was already past when the task was created
UCreatedLate(tid) == uTasks[tid].deadline # NoTime /\ uTasks[tid].deadline < uTasks[tid].created_time

\* C6 (as claimed): a task created with a deadline in the past is Failed
\* before any scheduling tick assigns it a vehicle.
C6_LateTaskNeverAssigned == \A tid \in DOMAIN uTasks : UCreatedLate(tid) /\ uTasks[tid].status # "failed" => AssignedVehiclesOf(uTasks[tid]) = {}

\* C8 (as claimed): once a task is Completed, Failed or Cancelled no step
\* changes its status.
C8_TerminalAbsorbing == [][\A tid \in DOMAIN uTasks : uTasks[tid].status \in TerminalStatuses => uTasks'[tid].status = uTasks[tid].status]_uvars

(***************************************************************************)
(* Properties of FlightScheduler                                           *)
(***************************************************************************)
\* the stored route of drone d is scheduled or active
FLive(d) == flight_paths[d].status \in {"scheduled", "active"}

\* the time windows [start_time, start_time + estimated_duration] intersect
FWindowsOverlap(p, q) == p.start_time <= q.start_time + q.estimated_duration /\ q.start_time <= p.start_time + p.estimated_duration

\* horizontal distance of at least 50 m, or vertical distance of at least 10 m
FSeparated(p, q) == GroundDistanceSq(p, q) >= 500 * 500 \/ Abs(p[3] - q[3]) >= 10

\* C2 (as claimed): two stored routes of different drones that are both
\* scheduled or active and whose time windows overlap are separated at every
\* pair of their waypoints by at least 50 m horizontally or 10 m vertically.
C2_Separation == \A d1, d2 \in DOMAIN flight_paths :
    d1 # d2 /\ FLive(d1) /\ FLive(d2) /\ FWindowsOverlap(flight_paths[d1], flight_paths[d2])
        => \A i \in 1..Len(flight_paths[d1].waypoints), j \in 1..Len(flight_paths[d2].waypoints) : FSeparated(flight_paths[d1].waypoints[i], flight_paths[d2].waypoints[j])

(***************************************************************************)
(* Properties of TaskScheduler                                             *)
(***************************************************************************)
\* this step assigns task tid: its status becomes 'assigned'
TBecomesAssigned(tid) == /\ tid \in DOMAIN tTasks
                         /\ tTasks[tid].status # "assigned"
                         /\ tTasks'[tid].status = "assigned"

\* C3 (as claimed): when a step assigns a vehicle to a task, the vehicle's
\* current payload plus the task's weight does not exceed the vehicle's
\* maximum payload.
C3_PayloadAtAssignment == [][\A tid \in DOMAIN tTasks : TBecomesAssigned(tid) => tVehicles[tTasks'[tid].assigned_to].current_payload + tTasks[tid].weight <= tVehicles[tTasks'[tid].assigned_to].max_payload]_vars

(***************************************************************************)
(* Properties of DeliveryScheduler                                         *)
(***************************************************************************)
\* position of a status in the pipeline pending .. completed (failed is last)
Rank(status) == IndexOf(StatusSeq, status)

\* a status change that the state machine allows: forward along the
\* pipeline, or from a state that is not terminal to failed
Forward(a, b) == \/ a = b
                 \/ b = "failed" /\ a \notin {"completed", "failed"}
                 \/ a # "failed" /\ b # "failed" /\ Rank(a) < Rank(b)

\* C7 (as claimed): every step leaves the status of every task where it is
\* or moves it forward along the pipeline, or to Failed from a state that is
\* not terminal.
C7_ForwardOnly == [][\A tid \in DOMAIN dTasks : Forward(dTasks[tid].status, dTasks'[tid].status)]_vars

\* this step is update_task_status(tid, new_status)
DSetsStatus(tid, new_status) == \E path_ok \in BOOLEAN : DoUpdateTaskStatus(tid, new_status, path_ok)

DNoVehicleReleased == \A vid \in DOMAIN dVehicles : dVehicles'[vid].status = "idle" => dVehicles[vid].status = "idle"

\* vehicle vid can be given a stage: it is of the type, idle, with battery above 30
DAvailable(vid, vehicle_type) == dVehicles[vid].type = vehicle_type /\ dVehicles[vid].status = "idle" /\ dVehicles[vid].battery > DBatteryThreshold

\* the next stage was attempted: either the task has the status that was set
\* and no vehicle changed, or the task has moved on to started_status and
\* names, in its field for that stage, a vehicle of the type that was
\* available and is now busy
DNextStageTriggered(tid, set_status, started_status, vehicle_type, field_of(_)) ==
    \/ dTasks'[tid].status = set_status /\ dVehicles' = dVehicles
    \/ /\ dTasks'[tid].status = started_status
       /\ field_of(dTasks'[tid]) \in DOMAIN dVehicles
       /\ DAvailable(field_of(dTasks'[tid]), vehicle_type)
       /\ dVehicles'[field_of(dTasks'[tid])].status = "busy"

MServes(vid, tid) == mTasks[tid].assigned_vehicle = vid \/ mVehicles[vid].current_task = tid

\* C10 (as claimed): the step that cancels a task that is not Completed,
\* Failed or Cancelled leaves every vehicle that serves the task idle and
\* without a current task.
C10_CancelReleasesVehicles == [][\A tid \in DOMAIN mTasks :
    DoCancelTask(tid) /\ mTasks[tid].status \notin {"COMPLETED", "FAILED", "CANCELLED"}
        => \A vid \in DOMAIN mVehicles : MServes(vid, tid) => mVehicles'[vid].status \in {"IDLE", "idle"} /\ mVehicles'[vid].current_task = NoTask]_vars

(***************************************************************************)
(* Further properties of FlightScheduler                                   *)
(***************************************************************************)
\* the stored routes without those whose status is aborted
FWithoutAborted == [d \in {e \in DOMAIN flight_paths : flight_paths[e].status # "aborted"} |-> flight_paths[d]]

\* C11 (as claimed): a stored route whose status is aborted has no effect on
\* the altitude the next schedule_flight call finds: for every requested
\* route and start time, find_safe_altitude returns what it would return
\* with the aborted routes removed.
C11_AbortedIgnored == \A c \in CorridorIds, start_time \in StartTimes :
    FindSafeAltitude(flight_paths, Corridors[c], start_time) = FindSafeAltitude(FWithoutAborted, Corridors[c], start_time)

\* for every requested route, the least altitude that clears the buildings
\* under its waypoints by the safety margin
FMinSafeAlt == [c \in CorridorIds |-> SafetyMargin + (CHOOSE h \in {GetMaxBuildingHeight(Corridors[c][i][1], Corridors[c][i][2]) : i \in 1..Len(Corridors[c])} : \A i \in 1..Len(Corridors[c]) : GetMaxBuildingHeight(Corridors[c][i][1], Corridors[c][i][2]) <= h)]

\* for every requested route, the flight time of a level flight along it
FLevelDuration == [c \in CorridorIds |-> CalculateDuration(At(Corridors[c], 0))]

\* a level flight along route c at altitude alt that starts at start_time
\* would conflict with a stored route
FLevelTaken(c, alt, start_time) == \E d \in DOMAIN flight_paths :
    CheckPathConflict([drone_id |-> "test", waypoints |-> At(Corridors[c], alt), start_time |-> start_time, estimated_duration |-> FLevelDuration[c], priority |-> 0, status |-> "scheduled"], flight_paths[d])

\* no level of the ladder is both at or above the minimum safe altitude of
\* route c and free of conflict
FNoSafeLevel(c, start_time) == \A k \in DOMAIN AltitudeLevels : AltitudeLevels[k] < FMinSafeAlt[c] \/ FLevelTaken(c, AltitudeLevels[k], start_time)

\* C15: a schedule_flight call for a route that has no safe and free level
\* fails, at the test of find_safe_altitude's result, and leaves the stored
\* routes as they were, the caller's own earlier route included.
C15_NoSafeAltitudeFails == [][\A drone_id \in Drones, c \in CorridorIds, start_time \in StartTimes, priority \in FPriorities :
    FNoSafeLevel(c, start_time) /\ DoScheduleFlight(drone_id, c, start_time, priority)
        => fReturn' = "no_safe_altitude" /\ flight_paths' = flight_paths]_vars

\* a call has just failed for want of a safe level while both drones hold
\* a stored route
C15_Witness == /\ fReturn = "no_safe_altitude"
               /\ DOMAIN flight_paths = Drones
               /\ \E c \in CorridorIds, start_time \in StartTimes : FNoSafeLevel(c, start_time)


(***************************************************************************)
(* Further properties of master_computer                                   *)
(***************************************************************************)
\* task tid is Pending, Assigned, Pickup or Delivering and its deadline is past
MOverdue(tid) == /\ tid \in DOMAIN mTasks
                 /\ mTasks[tid].status \notin {"COMPLETED", "FAILED", "CANCELLED"}
                 /\ mTasks[tid].deadline # NoTime
                 /\ now > mTasks[tid].deadline

\* task tid is Failed and has an error message
MFailedWithReason(tid) == tid \in DOMAIN mTasks /\ mTasks[tid].status = "FAILED" /\ mTasks[tid].error_message # None

\* C12 (as claimed): a task that is not terminal and whose deadline is past
\* does not stay so for ever: the monitoring loop makes it Failed with a
\* recorded reason (unless a caller removes it or makes it terminal first).
C12_DeadlineMissFails == MOverdue(1) ~> (MFailedWithReason(1) \/ ~MOverdue(1))

\* this step marks vehicle vid Error or Offline
MBecomesUnreachable(vid) == mVehicles[vid].status \notin {"ERROR", "OFFLINE"} /\ mVehicles'[vid].status \in {"ERROR", "OFFLINE"}

\* C13 (as claimed): the step that marks a vehicle Error or Offline releases
\* every task that is not terminal and that the vehicle serves: after the
\* step the task is Pending and names no vehicle.
C13_FailureReleasesTask == [][\A vid \in DOMAIN mVehicles, tid \in DOMAIN mTasks :
    MBecomesUnreachable(vid) /\ MServes(vid, tid) /\ mTasks[tid].status \notin {"COMPLETED", "FAILED", "CANCELLED"}
        => mTasks'[tid].status = "PENDING" /\ mTasks'[tid].assigned_vehicle = NoVehicle]_vars

(***************************************************************************)
(* Further properties of DeliveryScheduler                                 *)
(***************************************************************************)
\* C14 (as claimed): register_vehicle with an id that is already registered
\* leaves the registry, and the rest of the scheduler, as it was: the entry
\* under that id is not overwritten or reset.
C14_DuplicateRejected == [][\A vid \in DOMAIN dVehicles, battery \in DBatteries : DoRegisterVehicle(vid, battery) => dVehicles' = dVehicles]_vars

\* C16 (as claimed): with schedule_flight called from several threads, the
\* calls are never both accepted on one altitude layer of overlapping
\* routes: no two stored routes of different drones conflict.
C16_SingleWriter == \A d1, d2 \in DOMAIN flight_paths : d1 # d2 => ~CheckPathConflict(flight_paths[d1], flight_paths[d2])

(***************************************************************************)
(* Further properties of UnifiedScheduler                                  *)
(***************************************************************************)
\* this step is the scheduler thread reading the registry / marking a vehicle
USchedReads == uThreads.sched.pc = "find" /\ uThreads'.sched # uThreads.sched
USchedMarks == uThreads.sched.pc = "mark" /\ uThreads'.sched # uThreads.sched

\* C17 (as claimed): the scheduler thread never reads the registry while an
\* update_vehicle_status call has written only some of its fields, and when
\* it marks a vehicle busy the vehicle still has the status 'idle' that the
\* choice was based on.
C17_RegistryAtomic == [][/\ USchedReads => uThreads.tele.pc = "idle"
                         /\ USchedMarks => uVehicles[uThreads.sched.best].status = "idle"]_vars

\* C18 (as claimed): an error raised while one task is processed does not
\* end the scheduling loop: the scheduler thread is never terminated.
C18_LoopSurvives == uThreads.sched.pc # "dead"

(***************************************************************************)
(* Telemetry applied twice                                                 *)
(***************************************************************************)
\* the times at which a call that follows one made now can read the clock
LaterTimes == {t \in {now, MaxTime} : t >= now}

\* UnifiedScheduler.update_vehicle_status(vid, m) applied now and once more at t
UOnce(vid, m) == UpdateVehicleStatusEffect(uVehicles, vid, m, now)
UTwice(vid, m, t) == UpdateVehicleStatusEffect(UOnce(vid, m), vid, m, t)

\* TaskScheduler.update_vehicle_status applied once, and twice in a row
TOnce(vid, status, with_altitude) == TUpdateVehicleStatusEffect([veh |-> tVehicles, flights |-> tFlights], vid, status, with_altitude)
TTwice(vid, status, with_altitude) == TUpdateVehicleStatusEffect(TOnce(vid, status, with_altitude), vid, status, with_altitude)

\* TaskScheduler: the second call leaves the vehicles and the route statuses
\* (and with them the conflicts between stored routes) as the first left them
TTelemetryIdempotent == \A vid \in TVehicleIds, status \in TVehicleStatuses, with_altitude \in BOOLEAN :
    TTwice(vid, status, with_altitude) = TOnce(vid, status, with_altitude)

\* C20 (as claimed): update_vehicle_status applied twice in a row with the
\* same arguments leaves the scheduler in the state that one application
\* leaves: the vehicle records, and the tasks and stored routes, which the
\* call does not write.
C20_TelemetryIdempotent ==
    /\ \A vid \in UVehicleIds, m \in Telemetry, t \in LaterTimes : UTwice(vid, m, t) = UOnce(vid, m)
    /\ TTelemetryIdempotent

\* C20 (amended): the second application changes nothing but last_updated of
\* the vehicle in UnifiedScheduler, which becomes the time of the second
\* call; in TaskScheduler it changes nothing at all.
C20_IdempotentButTimestamp ==
    /\ \A vid \in UVehicleIds, m \in Telemetry, t \in LaterTimes :
         UTwice(vid, m, t) = IF vid \in DOMAIN uVehicles THEN [UOnce(vid, m) EXCEPT ![vid].last_updated = t] ELSE uVehicles
    /\ TTelemetryIdempotent

\* a telemetry update has been applied to a vehicle that serves a task, at a
\* time after which the clock can still advance
C20_Witness == /\ uCalls > 0
               /\ now < MaxTime
               /\ \E vid \in DOMAIN uVehicles, m \in Telemetry :
                    /\ uVehicles = UOnce(vid, m)
                    /\ \E tid \in DOMAIN uTasks : vid \in AssignedVehiclesOf(uTasks[tid])

(***************************************************************************)
(* Persistence                                                             *)
(***************************************************************************)
\* two Python values are equal: same type, same value
PyEq(a, b) == a[1] = b[1] /\ a[2] = b[2]

\* two registries hold the same ids, and equal values field for field
RegistryEq(r1, r2) == /\ DOMAIN r1 = DOMAIN r2
                      /\ \A id \in DOMAIN r1 : \A f \in DOMAIN r1[id] : PyEq(r1[id][f], r2[id][f])

\* C21 (as claimed): after save_state and a load_state of the file it
\* wrote, the vehicle and task registries equal, field for field, those that
\* were saved.
C21_RoundTrip == uStore.loaded /\ uStore.file = DumpState(PyState(uVehicles, uTasks)) =>
    /\ RegistryEq(uStore.state.vehicles, PyState(uVehicles, uTasks).vehicles)
    /\ RegistryEq(uStore.state.tasks, PyState(uVehicles, uTasks).tasks)

(***************************************************************************)
(* The task queue                                                          *)
(***************************************************************************)
\* task a goes before task b: higher priority, or the same priority and
\* created no later
GoesBefore(a, b) == \/ uTasks[a].priority > uTasks[b].priority
                    \/ uTasks[a].priority = uTasks[b].priority /\ uTasks[a].created_time <= uTasks[b].created_time

\* C22 (as claimed): the task a scheduling tick dequeues has the highest
\* priority of the queued tasks and, among those of that priority, the
\* earliest creation time, re-queued tasks included.
C22_QueueOrder == [][USchedulerTick => \A f \in uQueue : GoesBefore(QueueHead(uQueue)[3], f[3])]_vars

\* task tid waits in the queue with the status 'pending'
UWaits(tid) == /\ tid \in DOMAIN uTasks
               /\ uTasks[tid].status = "pending"
               /\ \E e \in uQueue : e[3] = tid

\* the scheduler thread has dequeued task tid and is in _assign_task for it
UAttempts(tid) == uThreads.sched.tid = tid /\ uThreads.sched.pc # "idle"

\* C23 (as claimed): a pending task that waits in the queue is eventually
\* dequeued and attempted, as long as the scheduler thread lives.
C23_NoStarvation == UWaits("T1") ~> (UAttempts("T1") \/ uThreads.sched.pc = "dead")

\* C24 (as claimed): a drone is recorded as the vehicle of a stage only if
\* the flight scheduler accepted a route for it, that is, holds a route
\* under the drone's id.
C24_DroneCommitNeedsRoute == \A tid \in DOMAIN uTasks : \A vid \in AssignedVehiclesOf(uTasks[tid]) :
    uVehicles[vid].type = "drone" => vid \in DOMAIN flight_paths

(***************************************************************************)
(* Choice of the vehicle                                                   *)
(***************************************************************************)
\* this step records vehicle vid as the vehicle of a stage of task tid
UAssigns(tid, vid) == /\ vid \notin AssignedVehiclesOf(uTasks[tid])
                      /\ vid \in AssignedVehiclesOf(uTasks'[tid])

\* C25 (as claimed): a vehicle is assigned to a stage only if it is idle,
\* its battery is strictly above min_battery_level and it has every
\* capability the task requires.
C25_Eligibility == [][\A tid \in DOMAIN uTasks, vid \in DOMAIN uVehicles : UAssigns(tid, vid) =>
                        /\ uVehicles[vid].status = "idle"
                        /\ uVehicles[vid].battery > MinBatteryLevel
                        /\ uTasks[tid].special_requirements \subseteq uVehicles[vid].capabilities]_vars

\* the deadline of task tid is over: whatever the travel takes, the
\* projected completion time exceeds it
UDeadlineOver(tid) == uTasks[tid].deadline # NoTime /\ now > uTasks[tid].deadline

\* C26 (as claimed): a vehicle that cannot complete the task before its
\* deadline, or whose payload capacity the task exceeds, is never selected
\* for the task.
C26_InfeasibleExcluded == [][\A tid \in DOMAIN uTasks, vid \in DOMAIN uVehicles : UAssigns(tid, vid) =>
                               /\ ~UDeadlineOver(tid)
                               /\ uVehicles[vid].current_payload + uTasks[tid].payload_weight <= uVehicles[vid].payload_capacity]_vars

\* the vehicle ids in the order of Python's str comparison
UIdRank == [CAR_1 |-> 1, CAR_2 |-> 2, DRONE_1 |-> 3]

\* this step gives stage 'pickup' of task tid, which had no vehicle, to vid
UAssignsPickup(tid, vid) == /\ "pickup" \notin DOMAIN uTasks[tid].assigned_vehicles
                            /\ "pickup" \in DOMAIN uTasks'[tid].assigned_vehicles
                            /\ uTasks'[tid].assigned_vehicles["pickup"] = vid

UPickupCost(tid, vid) == CalculateTaskCost(uVehicles, uTasks[tid], vid, "pickup", now)

\* C27 (as claimed): the vehicle selected for a stage has the least cost
\* of the suitable vehicles and, among those of that cost, the lowest id.
C27_LowestIdOnTie == [][\A tid \in DOMAIN uTasks, vid \in DOMAIN uVehicles : UAssignsPickup(tid, vid) =>
                          \A other \in DOMAIN uVehicles : Suitable(uVehicles, uTasks[tid], other) =>
                             \/ UPickupCost(tid, vid) < UPickupCost(tid, other)
                             \/ UPickupCost(tid, vid) = UPickupCost(tid, other) /\ UIdRank[vid] <= UIdRank[other]]_vars

\* the kind of vehicle that serves each stage
StageKind == [pickup |-> "car", transfer |-> "drone", delivery |-> "car"]

\* C28 (as claimed): the pickup stage of a task is only ever assigned to a
\* car, the transfer stage to a drone and the delivery stage to a car.
C28_StageKindMatches == \A tid \in DOMAIN uTasks : \A stage \in DOMAIN uTasks[tid].assigned_vehicles :
    uVehicles[uTasks[tid].assigned_vehicles[stage]].type = StageKind[stage]

(***************************************************************************)
(* Retry of the next stage in DeliveryScheduler                            *)
(***************************************************************************)
\* the task waits at tid's status st while a vehicle of the kind the next
\* stage needs is available
DWaitsWith(tid, st, vehicle_type) == /\ tid \in DOMAIN dTasks
                                     /\ dTasks[tid].status = st
                                     /\ \E vid \in DOMAIN dVehicles : DAvailable(vid, vehicle_type)

\* C29 (as claimed): a task whose next stage could not be assigned when the
\* stage before it completed does not stay at PickupComplete (or
\* TransferComplete) while a drone (a car) is available: the stage is
\* assigned later.
C29_NextStageRetried ==
    /\ DWaitsWith("task_1", "pickup_complete", "drone") ~> ~DWaitsWith("task_1", "pickup_complete", "drone")
    /\ DWaitsWith("task_1", "transfer_complete", "car") ~> ~DWaitsWith("task_1", "transfer_complete", "car")

(***************************************************************************)
(* The layer that schedule_flight assigns                                  *)
(***************************************************************************)
\* a level flight of drone_id along route c at altitude alt that starts at
\* start_time would conflict with the scheduled or active route of another
\* drone
FLiveTaken(drone_id, c, alt, start_time) == \E d \in DOMAIN flight_paths \ {drone_id} :
    /\ flight_paths[d].status \in {"scheduled", "active"}
    /\ CheckPathConflict([drone_id |-> "test", waypoints |-> At(Corridors[c], alt), start_time |-> start_time, estimated_duration |-> FLevelDuration[c], priority |-> 0, status |-> "scheduled"], flight_paths[d])

\* alt is the lowest level of the ladder that clears the buildings under
\* route c by the safety margin and is free of the other drones' scheduled
\* and active routes
FLowestSafeLevel(drone_id, c, alt, start_time) ==
    /\ \E k \in DOMAIN AltitudeLevels : AltitudeLevels[k] = alt
    /\ alt >= FMinSafeAlt[c]
    /\ ~FLiveTaken(drone_id, c, alt, start_time)
    /\ \A k \in DOMAIN AltitudeLevels : AltitudeLevels[k] < alt => AltitudeLevels[k] < FMinSafeAlt[c] \/ FLiveTaken(drone_id, c, AltitudeLevels[k], start_time)

\* C30 (as claimed): a schedule_flight call that is accepted stores the
\* route with every waypoint on one level of the ladder, and that level is
\* the lowest one that is at or above the tallest building under the
\* waypoints plus the safety margin and conflicts with no scheduled or
\* active route of another drone; no lower level has both properties.
C30_LowestSafeLayer == [][\A drone_id \in Drones, c \in CorridorIds, start_time \in StartTimes, priority \in FPriorities :
    fReturn' = "scheduled" /\ DoScheduleFlight(drone_id, c, start_time, priority)
        => /\ \A i \in DOMAIN flight_paths'[drone_id].waypoints : flight_paths'[drone_id].waypoints[i][3] = flight_paths'[drone_id].waypoints[1][3]
           /\ FLowestSafeLevel(drone_id, c, flight_paths'[drone_id].waypoints[1][3], start_time)]_vars

(***************************************************************************)
(* Density of the airspace                                                 *)
(***************************************************************************)
\* the routes of d1 and d2 are scheduled or active, their time windows
\* overlap, and every waypoint of one is within 500 m of the first waypoint
\* of the other: they are planned in one airspace zone at one time
FSameZone(d1, d2) ==
    /\ flight_paths[d1].status \in {"scheduled", "active"}
    /\ flight_paths[d2].status \in {"scheduled", "active"}
    /\ flight_paths[d1].start_time <= flight_paths[d2].start_time + flight_paths[d2].estimated_duration
    /\ flight_paths[d2].start_time <= flight_paths[d1].start_time + flight_paths[d1].estimated_duration
    /\ \A i \in DOMAIN flight_paths[d2].waypoints : GroundDistanceSq(flight_paths[d1].waypoints[1], flight_paths[d2].waypoints[i]) < 5000 * 5000

\* C31 (as claimed): no more than max_drones_per_zone routes are planned or
\* active in one airspace zone at one time; a route that would exceed the
\* bound is not accepted.
C31_DensityBound == \A d \in DOMAIN flight_paths : Cardinality({e \in DOMAIN flight_paths : FSameZone(d, e)}) <= MaxDronesPerZone

(***************************************************************************)
(* The path cache of MapManager                                            *)
(***************************************************************************)
\* the cached path under key was planned against the obstacles and
\* restricted areas that MapManager holds now
KFresh(key) == kCache[key].obstacles = kObstacles /\ kCache[key].restricted = kRestricted

\* C32 (as claimed): plan_path never returns a path that was cached before
\* the last change of the obstacles or of the restricted areas: a path it
\* returns from the cache was planned against the obstacles and restricted
\* areas that MapManager holds at the call.
C32_NoStaleReturn ==
    [][\A start \in KEndPoints, end \in KEndPoints, path_type \in KPathTypes :
            DoPlanPath(start, end, path_type) /\ kReturn'.how = "cached" => KFresh(<<start, end, path_type, "car">>)]_vars

(***************************************************************************)
(* The result of _dijkstra                                                 *)
(***************************************************************************)
\* the weight of the edge from a to b (the least one, were there several)
KEdgeWeight(graph, a, b) == CHOOSE w \in {e[2] : e \in {x \in graph[a] : x[1] = b}} : \A e \in graph[a] : e[1] = b => w <= e[2]

\* the node sequences without repetition that follow edges of the graph
KRoutes(graph) == {w \in UNION {[1..n -> DOMAIN graph] : n \in 1..Cardinality(DOMAIN graph)} :
                      /\ \A i, j \in DOMAIN w : i # j => w[i] # w[j]
                      /\ \A i \in 1..(Len(w) - 1) : \E e \in graph[w[i]] : e[1] = w[i + 1]}

RECURSIVE KRouteWeight(_, _, _)
KRouteWeight(graph, w, i) == IF i >= Len(w) THEN 0 ELSE KEdgeWeight(graph, w[i], w[i + 1]) + KRouteWeight(graph, w, i + 1)

\* nodes is what the claim asks of _dijkstra(graph, start, end): a route of
\* least weight from start to end if there is a route, None otherwise
KShortestOrNone(graph, start, end, nodes) ==
    LET routes == {w \in KRoutes(graph) : w[1] = start /\ w[Len(w)] = end}
    IN IF routes = {} THEN nodes = <<>>
       ELSE nodes \in routes /\ \A w \in routes : KRouteWeight(graph, nodes, 1) <= KRouteWeight(graph, w, 1)

\* C33 (as claimed): the node sequence that _plan_road_path gets from
\* _dijkstra for the nodes nearest to start and end, the same node for both
\* included, is a route of least total weight from the one to the other
\* whenever there is a route, and None only when there is none.
C33_DijkstraResult == [][kRoads # {} /\ kReturn' # kReturn /\ kReturn'.how = "road" =>
    \E graph \in {BuildGraph(kRoads)} :
        KShortestOrNone(graph, FindNearestNode(kReturn'.start, graph), FindNearestNode(kReturn'.end, graph),
                        IF kReturn'.path = <<>> THEN <<>> ELSE SubSeq(kReturn'.path, 2, Len(kReturn'.path) - 1))]_vars

\* what holds of _dijkstra: the same, for two different nodes only
KDijkstraRightApart == [][kRoads # {} /\ kReturn' # kReturn /\ kReturn'.how = "road" =>
    \E graph \in {BuildGraph(kRoads)} :
        FindNearestNode(kReturn'.start, graph) # FindNearestNode(kReturn'.end, graph) =>
        KShortestOrNone(graph, FindNearestNode(kReturn'.start, graph), FindNearestNode(kReturn'.end, graph),
                        IF kReturn'.path = <<>> THEN <<>> ELSE SubSeq(kReturn'.path, 2, Len(kReturn'.path) - 1))]_vars

(***************************************************************************)
(* The result of plan_drone_path                                           *)
(***************************************************************************)
\* two points are neighbours on the grid
PAdjacent(p, q) == /\ p # q
                   /\ Abs(p[1] - q[1]) \in {0, PGridSize}
                   /\ Abs(p[2] - q[2]) \in {0, PGridSize}
                   /\ Abs(p[3] - q[3]) \in {0, ElevationStep}

\* path leads from start_3d to goal_3d over neighbouring points that are
\* free of collision
PRealPath(path, start_3d, goal_3d) ==
    /\ path # <<>>
    /\ path[1] = start_3d
    /\ path[Len(path)] = goal_3d
    /\ \A i \in 1..(Len(path) - 1) : PAdjacent(path[i], path[i + 1])
    /\ \A i \in 2..Len(path) : ~CheckCollision(pTerrain, pObstacles, path[i])

\* C34 (as claimed): what plan_drone_path returns is NoPath (no waypoints)
\* or a sequence that begins at the start, ends at the goal and steps
\* between neighbouring, collision-free points; when the frontier empties
\* before the goal is reached it is not a sequence that merely holds the
\* goal.
C34_RealPathOrNoPath == [][pReturn' # pReturn /\ pReturn'.how = "returned" =>
    pReturn'.path = <<>> \/ PRealPath(pReturn'.path, pReturn'.start, pReturn'.goal)]_vars

(***************************************************************************)
(* Release of vehicles by check_completed_tasks                            *)
(***************************************************************************)
\* task tid is assigned to vehicle vid and is not Completed, Failed or Cancelled
MLiveOn(tid, vid) == mTasks[tid].assigned_vehicle = vid /\ mTasks[tid].status \notin {"COMPLETED", "FAILED", "CANCELLED"}

\* C35 (as claimed): a vehicle whose status is idle has no task assigned to
\* it that is not Completed, Failed or Cancelled; check_completed_tasks
\* does not release a vehicle that has since been given another task.
C35_IdleHasNoLiveTask == \A vid \in DOMAIN mVehicles :
    mVehicles[vid].status \in {"idle", "IDLE"} => \A tid \in DOMAIN mTasks : ~MLiveOn(tid, vid)

(***************************************************************************)
(* Roll-back of a failed assign_task                                       *)
(***************************************************************************)
\* C36 (as claimed): assign_task, which returns False in every call (the
\* route planning fails, or the plan_path call raises), leaves a task that
\* was Pending and a vehicle that was Idle as they were: the task Pending
\* with no assigned vehicle, the vehicle Idle with no current task.
C36_FailedAssignRolledBack == [][\A task_id \in 1..MaxTasks, vehicle_id \in DOMAIN mVehicles, routes_ok \in BOOLEAN :
    /\ task_id \in DOMAIN mTasks
    /\ mTasks[task_id].status = "PENDING"
    /\ mVehicles[vehicle_id].status = "IDLE"
    /\ DoAssignTask(task_id, vehicle_id, routes_ok)
    => /\ mTasks'[task_id].status = "PENDING"
       /\ mTasks'[task_id].assigned_vehicle = NoVehicle
       /\ mVehicles'[vehicle_id].status = "IDLE"
       /\ mVehicles'[vehicle_id].current_task = NoTask]_vars

(***************************************************************************)
(* Busy vehicles of UnifiedScheduler                                       *)
(***************************************************************************)
\* C37 (as claimed): every vehicle that is busy is named in the
\* assigned_vehicles of a task that is not completed, failed or cancelled.
C37_NoOrphanedBusy == \A vid \in DOMAIN uVehicles : uVehicles[vid].status = "busy" => ULiveTasksOf(vid) # {}

(***************************************************************************)
(* The ids that create_task generates                                      *)
(***************************************************************************)
\* C38 (as claimed): create_task stores the new task under an id that was
\* not in the registry: no stored task is overwritten and the number of
\* stored tasks grows by exactly one.
C38_FreshTaskId == [][MCreateTask =>
    /\ Len(mTaskOrder) + 1 \notin DOMAIN mTasks
    /\ Cardinality(DOMAIN mTasks') = Cardinality(DOMAIN mTasks) + 1]_vars

(***************************************************************************)
(* Support cars of TaskScheduler                                           *)
(***************************************************************************)
\* the resupply tasks that name car vid as their support car and are not completed
TOpenResupplyOf(vid) == {tid \in DOMAIN tTasks : tTasks[tid].task_type = "resupply" /\ tTasks[tid].assigned_to = vid /\ tTasks[tid].status # "completed"}

\* C39 (as claimed): a support car is committed to at most one open
\* resupply task at a time.
C39_SupportCarExclusive == \A vid \in DOMAIN tVehicles : Cardinality(TOpenResupplyOf(vid)) <= 1

(***************************************************************************)
(* The status of a stored flight route                                     *)
(***************************************************************************)
\* C40 (as claimed): the status of every flight route that TaskScheduler's
\* flight scheduler stores is one of scheduled, active, completed, aborted.
C40_RouteStatusDomain == \A drone_id \in DOMAIN tFlights : tFlights[drone_id] \in FlightStatuses

====
